---- MODULE Spec2Model ----
(***************************************************************************)
(* A model of the turn-based core of changelingRL: the action layer        *)
(* (game/actions.py), the AI turn driver (game/components/ai.py), the      *)
(* engine's enemy phase and field-of-view update (game/engine.py) and the  *)
(* player-action wrapper (game/input_handlers.py).                         *)
(*                                                                         *)
(* Entities are named by strings; a coordinate is a pair <<x, y>>.         *)
(***************************************************************************)
EXTENDS Integers, Sequences, FiniteSets, TLC

\* ------------------------------------------------------------------ bounds
MapWidth == 3
MapHeight == 3
MaxTurn == 1
MaxSteps == 2
MaxHP == 2
ArenaWidth == 6
ArenaHeight == 9
MaxCycles == 3
GenWidth == 11
GenHeight == 6
max_attempts == 3
MaxRestarts == 1

\* ------------------------------------------------------------ the entities
PLAYER == "you"
NPCs == {"npc1", "npc2"}
Actors == {PLAYER} \cup NPCs
Items == {"rock1", "rock2"}
Entities == Actors \cup Items
NoEntity == "None"
GAMEMAP == "gamemap"

\* Entity.id, the key handle_enemy_turns sorts by (deliberately not the
\* alphabetical order of the names).
Id(e) ==
    CASE e = "you" -> 0 [] e = "npc2" -> 1 [] e = "npc1" -> 2
      [] e = "rock1" -> 3 [] OTHER -> 4

\* Entity.name, as used in messages and in cause_of_death.
Name(e) == IF e \in Items THEN "rock" ELSE e

DIRECTIONS ==
    { <<-1, -1>>, <<0, -1>>, <<1, -1>>, <<-1, 0>>,
      <<1, 0>>, <<-1, 1>>, <<0, 1>>, <<1, 1>> }

\* Floors 1 and 2 are the small floors below; floor 3 is a larger hall.
ArenaFloor == 3

FloorWidth(fl) == IF fl = ArenaFloor THEN ArenaWidth ELSE MapWidth

FloorHeight(fl) == IF fl = ArenaFloor THEN ArenaHeight ELSE MapHeight

CellsOf(fl) == (0 .. FloorWidth(fl) - 1) \X (0 .. FloorHeight(fl) - 1)

Cells == CellsOf(1)

\* --------------------------------------------------------------- the state
VARIABLES
    pos,            \* Entity.xy of every entity
    parent,         \* Item.parent: GAMEMAP or the actor whose inventory owns it
    inventory,      \* Actor.inventory.items, in pickup order
    hp,             \* Actor hit points; is_alive iff hp > 0
    cause_of_death, \* player.cause_of_death ("" while unset)
    floor_number,   \* game_map.floor_number
    turn_count,     \* engine.turn_count
    new_messages,   \* what the running handler appended to engine.message_log
    new_history,    \* what the running handler appended to engine.history
    generated,      \* calls of game_world.generate_floor by the running handler
    last,           \* the top-level action last performed, with its outcome
    steps,          \* number of perform() calls made so far (SpecActions)
    ai,             \* Actor.ai of every NPC: its stack of strategies, active first
    being_eaten,    \* the NPCs whose statuses hold a BeingEaten
    last_peed,      \* Actor.last_peed of every NPC
    phase,          \* where handle_action stands: "idle" or "enemy_turns"
    queue,          \* handle_enemy_turns: the enemies still to take their turn
    path_call,      \* the last get_path_to(): its arguments and its cost array
    acted,          \* the ai.perform() calls of this enemy phase, in order
    turn_log,       \* the last ai.perform(): whose, its intent, what it performed
    ret,            \* what the last handle_action returned
    crashed,        \* a Python fault other than Impossible ended the program
    visible,        \* game_map.visible, the set of cells that are True
    explored,       \* game_map.explored
    game_mode,      \* game_map.game_mode
    decision,       \* the last decide() of a hostile strategy and what it resolved
    lingering,      \* per NPC: DefaultNPC.decide() calls in a row that began on
                    \* its target_tile and left target_tile set
    rooms,          \* generate_dungeon_map: the rooms accepted so far
    attempts,       \* generate_dungeon_map: the rooms constructed so far
    dungeon,        \* dungeon.tiles: the cells that are no longer wall
    gen,            \* generate_dungeon_map: "idle", "running" or "returned"
    depth,          \* how many times generate_dungeon_map has called itself
    placed,         \* where the generator put the player and the stairs
    maze,           \* Maze.__init__: the grid being carved
    chunked,        \* MazeCell.solidify: the cell and the tiles it stamped
    spawn,          \* place_entities: the chunks built and what they spawned
    tables,         \* tile_types: NAMES, FLAVORS and the ids handed out
    ship,           \* Engine: the two shuttle flags, the gate and bioscanner tiles
    turns           \* handle_enemy_turns, with any outcome of an ai.perform()

\* What only the harnesses of single strategies and of the generator write.
gen_vars == << rooms, attempts, dungeon, gen, depth, placed >>

\* What the harnesses of the other setup code write.
side_vars == << maze, chunked, spawn, tables, ship, turns >>

extra_vars == << decision, lingering, gen_vars, side_vars >>

vars ==
    << pos, parent, inventory, hp, cause_of_death, floor_number, turn_count,
       new_messages, new_history, generated, last, steps, ai, being_eaten,
       last_peed, phase, queue, path_call, acted, turn_log, ret, crashed,
       visible, explored, game_mode, extra_vars >>

world_vars ==
    << pos, parent, inventory, hp, cause_of_death, floor_number, turn_count,
       new_messages, new_history, generated >>

driver_vars ==
    << ai, being_eaten, last_peed, phase, queue, path_call, acted, turn_log,
       ret, crashed, visible, explored, game_mode, extra_vars >>

\* ------------------------------------------------------------ tile registry
TileWalkable(t) == t \in {"floor", "down_stairs", "door", "gate"}

TileTransparent(t) == t \notin {"wall", "door"}

\* ------------------------------------------------------------ the floor map
upstairs_location(fl) == <<0, 0>>

downstairs_location(fl) ==
    IF fl % 2 = 1 THEN <<MapWidth - 1, MapHeight - 1>> ELSE <<MapWidth - 1, 0>>

\* The hall of floor 3: a room of floor tiles walled all around, with one
\* pillar of wall inside it.
ArenaRoom == (3 .. 5) \X (5 .. 8)

ArenaPillar == { <<4, 6>> }

Tiles(fl, c) ==
    IF fl = ArenaFloor
    THEN IF c \in ArenaRoom \ ArenaPillar THEN "floor" ELSE "wall"
    ELSE IF c = downstairs_location(fl) THEN "down_stairs"
    ELSE IF c = <<1, 1>> THEN "fence"
    ELSE "floor"

SpawnXY(e) ==
    CASE e = "you" -> <<0, 0>>
      [] e = "npc1" -> <<MapWidth - 1, 0>>
      [] e = "npc2" -> <<0, MapHeight - 1>>
      [] OTHER -> <<1, 0>>

\* Mutant: only the upper limits are tested.
in_bounds_Upper(fl, c) == c[1] < FloorWidth(fl) /\ c[2] < FloorHeight(fl)

in_bounds(fl, c) ==
    c[1] \in 0 .. FloorWidth(fl) - 1 /\ c[2] \in 0 .. FloorHeight(fl) - 1

\* The world the action layer reads and writes, as one record.
World ==
    [ pos |-> pos, parent |-> parent, inventory |-> inventory, hp |-> hp,
      cause_of_death |-> cause_of_death, floor_number |-> floor_number,
      turn_count |-> turn_count, new_messages |-> new_messages,
      new_history |-> new_history, generated |-> generated ]

is_alive(w, e) == w.hp[e] > 0

blocks_movement(w, e) == e \in Actors /\ is_alive(w, e)

get_blocking_entity_at_location(w, c) ==
    LET here == { e \in Actors : blocks_movement(w, e) /\ w.pos[e] = c }
    IN  IF here = {} THEN NoEntity
        ELSE CHOOSE e \in here : \A o \in here : Id(e) <= Id(o)

tile_is_walkable(w, c) ==
    /\ in_bounds(w.floor_number, c)
    /\ TileWalkable(Tiles(w.floor_number, c))
    /\ get_blocking_entity_at_location(w, c) = NoEntity

\* GameMap.items: every Item of the entity set, carried ones included.
game_map_items(w) == Items

add_message(w, text) == [w EXCEPT !.new_messages = Append(@, text)]

\* ------------------------------------------------------------- game world
Range(s) == { s[k] : k \in DOMAIN s }

\* GameWorld.generate_floor: the next floor replaces the map wholesale.  The
\* new entity set is the player, the items the player carries, and what the
\* generator spawns (generate_dungeon and place_entities).
generate_floor(w) ==
    LET fl == w.floor_number + 1
        carried == Range(w.inventory[PLAYER])
    IN  [w EXCEPT
            !.floor_number = fl,
            !.pos = [e \in Entities |->
                        IF e = PLAYER THEN upstairs_location(fl)
                        ELSE IF e \in carried THEN w.pos[e]
                        ELSE SpawnXY(e)],
            !.parent = [i \in Items |->
                        IF i \in carried THEN w.parent[i] ELSE GAMEMAP],
            !.inventory = [a \in Actors |->
                        IF a = PLAYER THEN w.inventory[a] ELSE <<>>],
            !.hp = [a \in Actors |-> IF a = PLAYER THEN w.hp[a] ELSE MaxHP],
            !.generated = @ + 1]

\* Actor.take_damage
take_damage(w, e, damage) ==
    [w EXCEPT !.hp[e] = IF @ > damage THEN @ - damage ELSE 0]

\* Entity.move
move(w, e, dx, dy) ==
    [w EXCEPT !.pos[e] = <<w.pos[e][1] + dx, w.pos[e][2] + dy>>]

\* ------------------------------------------------------------ action layer
\* An action is a record [cls, entity, dx, dy, items]; performing it yields
\* the new world, how perform() ended ("ok", "Impossible" with its reason,
\* or "AttributeError" for a Python fault) and the action's meleed flag.
Action(c, e, x, y) ==
    [cls |-> c, entity |-> e, dx |-> x, dy |-> y, items |-> <<>>]

Done(wd, m) ==
    [w |-> wd, res |-> "ok", reason |-> "", meleed |-> m]

Impossible(wd, why, m) ==
    [w |-> wd, res |-> "Impossible", reason |-> why, meleed |-> m]

Fault(wd, m) ==
    [w |-> wd, res |-> "AttributeError", reason |-> "", meleed |-> m]

dest_xy(w, a) == <<w.pos[a.entity][1] + a.dx, w.pos[a.entity][2] + a.dy>>

blocking_entity(w, a) == get_blocking_entity_at_location(w, dest_xy(w, a))

\* Seq of the elements of S, ascending by Id.
RECURSIVE ById(_)
ById(S) ==
    IF S = {} THEN <<>>
    ELSE LET e == CHOOSE x \in S : \A y \in S : Id(x) <= Id(y)
         IN  <<e>> \o ById(S \ {e})

\* Mutant: items the actor already carries are picked up again.
items_here_Unfiltered(w, a) ==
    ById({ i \in game_map_items(w) : w.pos[i] = w.pos[a.entity] })

items_here(w, a) ==
    ById({ i \in game_map_items(w) :
             /\ w.pos[i] = w.pos[a.entity]
             /\ i \notin Range(w.inventory[a.entity]) })

RECURSIVE PickupLoop(_, _, _)
PickupLoop(w, e, items) ==
    IF items = <<>> THEN w
    ELSE LET item == Head(items)
             w1 == [w EXCEPT !.parent[item] = e,
                             !.inventory[e] = Append(@, item)]
             w2 == add_message(w1, "You pick up the ?.")
             w3 == [w2 EXCEPT !.new_history =
                        Append(@, [kind |-> "pickup item",
                                   subject |-> Name(item),
                                   turn |-> w.turn_count])]
         IN  PickupLoop(w3, e, Tail(items))

PickupAction_perform(w, a) ==
    LET items == IF a.items # <<>> THEN a.items ELSE items_here(w, a)
    IN  Done(PickupLoop(w, a.entity, items), FALSE)

\* str.capitalize() of the names in play.
Capitalize(n) ==
    CASE n = "you" -> "You"
      [] n = "npc1" -> "Npc1"
      [] n = "npc2" -> "Npc2"
      [] n = "rock" -> "Rock"
      [] OTHER -> n

\* Mutant: the cause of death is written whenever the defender dies.
MeleeAction_perform_AnyDeath(w, a) ==
    LET target == blocking_entity(w, a)
        damage == 1
    IN  IF target = NoEntity THEN Impossible(w, "Nothing to attack.", FALSE)
        ELSE LET attack_desc == Capitalize(Name(a.entity)) \o " attacks "
                                    \o Name(target) \o "!"
                 w1 == add_message(w, attack_desc)
                 w2 == take_damage(w1, target, damage)
             IN  IF ~is_alive(w2, target)
                 THEN Done([w2 EXCEPT !.cause_of_death = Name(a.entity)], FALSE)
                 ELSE Done(w2, FALSE)

MeleeAction_perform(w, a) ==
    LET target == blocking_entity(w, a)
        damage == 1
    IN  IF target = NoEntity THEN Impossible(w, "Nothing to attack.", FALSE)
        ELSE IF damage > 0
        THEN LET attack_desc == Capitalize(Name(a.entity)) \o " attacks "
                                    \o Name(target) \o "!"
                 w1 == add_message(w, attack_desc)
                 w2 == take_damage(w1, target, damage)
             IN  IF target = PLAYER /\ ~is_alive(w2, target)
                 THEN Done([w2 EXCEPT !.cause_of_death = Name(a.entity)], FALSE)
                 ELSE Done(w2, FALSE)
        ELSE Done(add_message(w, Capitalize(Name(a.entity)) \o " attacks "
                                 \o Name(target) \o "! But it does no damage."),
                  FALSE)

\* target.name of no target is a Python fault, not an Impossible.
TalkAction_perform(w, a, meleed) ==
    LET target == blocking_entity(w, a)
    IN  IF target = NoEntity THEN Fault(w, meleed)
        ELSE Done(add_message(w, "?: Hello there, " \o Name(target) \o "!"),
                  meleed)

\* Mutant: the branch of the other actors moves without looking.
MovementAction_perform_Unchecked(w, a, meleed) ==
    IF a.entity = PLAYER
    THEN IF ~tile_is_walkable(w, dest_xy(w, a))
         THEN Impossible(w, "That way is blocked.", meleed)
         ELSE Done(move(w, a.entity, a.dx, a.dy), meleed)
    ELSE Done(move(w, a.entity, a.dx, a.dy), meleed)

MovementAction_perform(w, a, meleed) ==
    IF a.entity = PLAYER
    THEN IF ~tile_is_walkable(w, dest_xy(w, a))
         THEN Impossible(w, "That way is blocked.", meleed)
         ELSE Done(move(w, a.entity, a.dx, a.dy), meleed)
    ELSE IF ~tile_is_walkable(w, dest_xy(w, a))
         THEN Impossible(w, "That way is blocked.", meleed)
         ELSE Done(move(w, a.entity, a.dx, a.dy), meleed)

\* Mutant: the interaction is started without setting meleed.
BumpAction_perform_Unflagged(w, a) ==
    IF blocking_entity(w, a) # NoEntity
    THEN TalkAction_perform(w, a, FALSE)
    ELSE MovementAction_perform(w, a, FALSE)

BumpAction_perform(w, a) ==
    IF blocking_entity(w, a) # NoEntity
    THEN TalkAction_perform(w, a, TRUE)
    ELSE MovementAction_perform(w, a, FALSE)

WaitAction_perform(w, a) == Done(w, FALSE)

\* Mutant: the stairs are looked for where the floor is entered.
TakeStairsAction_perform_Upstairs(w, a) ==
    IF w.pos[a.entity] = upstairs_location(w.floor_number)
    THEN LET w1 == generate_floor(w)
             w2 == add_message(w1, "You descend the staircase.")
         IN  Done([w2 EXCEPT !.new_history =
                        Append(@, [kind |-> "descend stairs",
                                   subject |-> w2.floor_number,
                                   turn |-> w2.turn_count])], FALSE)
    ELSE Impossible(w, "There are no stairs here.", FALSE)

TakeStairsAction_perform(w, a) ==
    IF w.pos[a.entity] = downstairs_location(w.floor_number)
    THEN LET w1 == generate_floor(w)
             w2 == add_message(w1, "You descend the staircase.")
         IN  Done([w2 EXCEPT !.new_history =
                        Append(@, [kind |-> "descend stairs",
                                   subject |-> w2.floor_number,
                                   turn |-> w2.turn_count])], FALSE)
    ELSE Impossible(w, "There are no stairs here.", FALSE)

perform(w, a) ==
    CASE a.cls = "Pickup" -> PickupAction_perform(w, a)
      [] a.cls = "Melee" -> MeleeAction_perform(w, a)
      [] a.cls = "Talk" -> TalkAction_perform(w, a, FALSE)
      [] a.cls = "Bump" -> BumpAction_perform(w, a)
      [] a.cls = "Movement" -> MovementAction_perform(w, a, FALSE)
      [] a.cls = "Wait" -> WaitAction_perform(w, a)
      [] a.cls = "TakeStairs" -> TakeStairsAction_perform(w, a)

\* ------------------------------------------------------------ pathfinding
PathCost == 10
Cardinal == 3
Diagonal == 4

\* numpy int8 arithmetic wraps.
Int8(v) == ((v + 128) % 256) - 128

\* The loop of get_path_to over gm.entities: a blocking entity on a cell of
\* non-zero cost that is not the destination makes that cell dearer.
RECURSIVE CostLoop(_, _, _, _, _)
CostLoop(cost, w, ents, dest, path_cost) ==
    IF ents = <<>> THEN cost
    ELSE LET e == Head(ents)
             c == w.pos[e]
             cost1 ==
                 IF /\ blocks_movement(w, e)
                    /\ cost[c] # 0
                    /\ (c[1] # dest[1] \/ c[2] # dest[2])
                 THEN [cost EXCEPT ![c] = Int8(@ + path_cost)]
                 ELSE cost
         IN  CostLoop(cost1, w, Tail(ents), dest, path_cost)

\* Mutant: the destination is not exempted.
CostGrid_NoExemption(w, dest, path_cost, walkable) ==
    LET tiles == [c \in CellsOf(w.floor_number) |->
                    IF walkable
                    THEN IF TileWalkable(Tiles(w.floor_number, c)) THEN 1 ELSE 0
                    ELSE 1]
    IN  CostLoop(tiles, w, ById(Entities), <<-1, -1>>, path_cost)

\* The cost array get_path_to hands to the pathfinder.
CostGrid(w, dest, path_cost, walkable) ==
    LET tiles == [c \in CellsOf(w.floor_number) |->
                    IF walkable
                    THEN IF TileWalkable(Tiles(w.floor_number, c)) THEN 1 ELSE 0
                    ELSE 1]
    IN  CostLoop(tiles, w, ById(Entities), dest, path_cost)

Infinity ==
    127 * Diagonal * (MapWidth * MapHeight + ArenaWidth * ArenaHeight) + 1

\* The cells of the cost array next to c.
Neighbours(cost, c) ==
    { n \in { <<c[1] + d[1], c[2] + d[2]>> : d \in DIRECTIONS } :
        n \in DOMAIN cost }

\* tcod SimpleGraph: entering node n costs cost[n] times cardinal or diagonal.
EdgeCost(cost, c, n) ==
    cost[n] * (IF c[1] = n[1] \/ c[2] = n[2] THEN Cardinal ELSE Diagonal)

Min(S) == CHOOSE m \in S : \A o \in S : m <= o

\* Cheapest cost from every cell to dest, by rounds of relaxation.
RECURSIVE Relax(_, _, _)
Relax(dist, cost, rounds) ==
    IF rounds = 0 THEN dist
    ELSE LET next ==
               [c \in DOMAIN cost |->
                  Min({dist[c]} \cup
                      { EdgeCost(cost, c, n) + dist[n] :
                          n \in { m \in Neighbours(cost, c) :
                                    cost[m] > 0 /\ dist[m] < Infinity } })]
         IN  IF next = dist THEN dist ELSE Relax(next, cost, rounds - 1)

DistanceTo(cost, dest) ==
    Relax([c \in DOMAIN cost |-> IF c = dest THEN 0 ELSE Infinity], cost,
          Cardinality(DOMAIN cost))

\* The cells that can follow c on a cheapest path to dest.
NextOnPath(cost, dist, c) ==
    { n \in Neighbours(cost, c) :
        /\ cost[n] > 0
        /\ dist[n] < Infinity
        /\ dist[c] = EdgeCost(cost, c, n) + dist[n] }

\* The first k cells (fewer when the path is shorter) of the cheapest paths
\* from c to dest; <<>> alone when there is no path or c is dest.  The
\* pathfinder returns one cheapest path; which one is its own affair.
RECURSIVE PathPrefixes(_, _, _, _, _)
PathPrefixes(cost, dist, c, dest, k) ==
    IF k = 0 \/ c = dest \/ dist[c] >= Infinity THEN { <<>> }
    ELSE UNION { { <<n>> \o rest :
                     rest \in PathPrefixes(cost, dist, n, dest, k - 1) } :
                 n \in NextOnPath(cost, dist, c) }

\* get_path_to(dest)[0:k] with the default path_cost, over the walkable mask.
get_path_to(w, e, dest, k) ==
    LET cost == CostGrid(w, dest, PathCost, TRUE)
    IN  PathPrefixes(cost, DistanceTo(cost, dest), w.pos[e], dest, k)

\* get_path_to(dest) in full.
full_path_to(w, e, dest) ==
    get_path_to(w, e, dest, Cardinality(CellsOf(w.floor_number)))

\* ------------------------------------------------------------------ rooms
\* The floor's rooms: the west column, the east column, the hall between,
\* and a closet of one tile at the south end of the hall.
RoomAt(c) ==
    IF c[1] = 0 THEN "quarters"
    ELSE IF c[1] = MapWidth - 1 THEN "lab"
    ELSE IF c = <<1, MapHeight - 1>> THEN "closet"
    ELSE "hall"

\* The rooms whose closet flag is set.
Closets == {"closet"}

RoomInner(r) == { c \in Cells : RoomAt(c) = r }

scheduled_room(e) == IF e = "npc1" THEN "lab" ELSE "quarters"

move_speed(e) == IF e = "npc1" THEN 2 ELSE 1

Abs(n) == IF n < 0 THEN -n ELSE n

Chebyshev(c, d) ==
    IF Abs(c[1] - d[1]) > Abs(c[2] - d[2])
    THEN Abs(c[1] - d[1]) ELSE Abs(c[2] - d[2])

\* GameMap.actors: the living actors of the floor.
game_map_actors(w) == { a \in Actors : is_alive(w, a) }

get_adjacent_actors(w, e) ==
    { a \in game_map_actors(w) \ {e} : Chebyshev(w.pos[a], w.pos[e]) = 1 }

\* ------------------------------------------------------------ AI strategies
NoTile == <<>>

PeeDuration == 10
NeedThreshold == 240

Strategy(k, target) ==
    [ kind |-> k, target_tile |-> target, pee_duration |-> PeeDuration,
      last_target |-> NoTile ]

\* What decide() leaves behind: the intent and the strategy's target_tile.
Decision(plan, target) == [intent |-> plan, target_tile |-> target]

\* BaseAI.goto: Bumps along the first move_speed cells of the path, cut at
\* the first cell that is not walkable.
\* Mutant: the steps are not cut where the path is not walkable.
RECURSIVE GotoSteps_Through(_, _, _, _)
GotoSteps_Through(w, e, from, path) ==
    IF path = <<>> THEN <<>>
    ELSE LET m == Head(path)
         IN  <<Action("Bump", e, m[1] - from[1], m[2] - from[2])>>
             \o GotoSteps_Through(w, e, m, Tail(path))

RECURSIVE GotoSteps(_, _, _, _)
GotoSteps(w, e, from, path) ==
    IF path = <<>> THEN <<>>
    ELSE LET m == Head(path)
         IN  IF ~tile_is_walkable(w, m) THEN <<>>
             ELSE <<Action("Bump", e, m[1] - from[1], m[2] - from[2])>>
                  \o GotoSteps(w, e, m, Tail(path))

goto(w, e, tile) ==
    { GotoSteps(w, e, w.pos[e], path) :
        path \in get_path_to(w, e, tile, move_speed(e)) }

\* mosey() from "wander my assigned area" on: a random step or a Wait.
WanderOrChill(e, plan, target) ==
    { Decision(plan \o <<Action("Bump", e, d[1], d[2])>>, target) :
        d \in DIRECTIONS }
    \cup { Decision(plan \o <<Action("Wait", e, 0, 0)>>, target) }

\* Mutant: the target_tile is kept when the actor stands on it.
MoseyOn_NoClear(w, e, target, muse) ==
    LET plan == IF muse
                THEN <<Action("Talk", e, w.pos[e][1], w.pos[e][2])>>
                ELSE <<>>
    IN  IF target # NoTile
        THEN IF w.pos[e] = target THEN WanderOrChill(e, plan, target)
             ELSE UNION { IF Len(plan \o bumps) > 0
                          THEN { Decision(plan \o bumps, target) }
                          ELSE WanderOrChill(e, plan, target) :
                          bumps \in goto(w, e, target) }
        ELSE WanderOrChill(e, plan, target)

\* mosey() after the chat roll failed; muse is the outcome of the two rolls
\* for an ambient Talk, whose direction is the actor's own coordinate.
MoseyOn(w, e, target, muse) ==
    LET plan == IF muse
                THEN <<Action("Talk", e, w.pos[e][1], w.pos[e][2])>>
                ELSE <<>>
    IN  IF target # NoTile
        THEN IF w.pos[e] = target THEN WanderOrChill(e, plan, NoTile)
             ELSE UNION { IF Len(plan \o bumps) > 0
                          THEN { Decision(plan \o bumps, target) }
                          ELSE WanderOrChill(e, plan, target) :
                          bumps \in goto(w, e, target) }
        ELSE WanderOrChill(e, plan, target)

\* DefaultNPC.mosey: every outcome of its random rolls.
mosey(w, e, target) ==
    { Decision(<<Action("Bump", e, w.pos[a][1] - w.pos[e][1],
                        w.pos[a][2] - w.pos[e][2])>>, target) :
        a \in get_adjacent_actors(w, e) }
    \cup MoseyOn(w, e, target, TRUE)
    \cup MoseyOn(w, e, target, FALSE)

\* DefaultNPC.decide
DefaultNPC_decide(w, e, st) ==
    IF RoomAt(w.pos[e]) # scheduled_room(e) /\ st.target_tile = NoTile
    THEN UNION { mosey(w, e, t) : t \in RoomInner(scheduled_room(e)) }
    ELSE mosey(w, e, st.target_tile)

\* BeingEatenNPC.decide
BeingEatenNPC_decide(w, e, st) ==
    { Decision(<<Action("Talk", e, w.pos[e][1], w.pos[e][2]),
                 Action("Wait", e, 0, 0)>>, st.target_tile) }

\* PeeNPC.pick_toilet: a tile of a closet nobody else is in, with the
\* shortest path to it; NoTile when no path leads to any.
pick_toilet(w, e) ==
    LET free == { r \in Closets :
                    \A o \in Entities \ {e} : w.pos[o] \notin RoomInner(r) }
        reach == { t \in UNION { RoomInner(r) : r \in free } :
                     \E p \in full_path_to(w, e, t) : Len(p) > 0 }
        len(t) == Min({ Len(p) : p \in full_path_to(w, e, t) })
    IN  IF reach = {} THEN { NoTile }
        ELSE { t \in reach : \A u \in reach : len(t) <= len(u) }

\* What a decide() leaves behind beyond the Decision: the strategy's
\* pee_duration and the entity's last_peed.
Kept(decisions, duration, peed) ==
    { [ intent |-> d.intent, target_tile |-> d.target_tile,
        pee_duration |-> duration, last_peed |-> peed ] : d \in decisions }

\* Mutant: every decision in the closet takes two off the duration.
PeeNPC_decide_Hasty(w, e, st, peed) ==
    UNION { IF w.pos[e] = t
            THEN LET duration == st.pee_duration - 2
                     company == \E o \in Entities \ {e} :
                                   RoomAt(w.pos[o]) = RoomAt(w.pos[e])
                 IN  { [ intent |->
                           (IF company
                            THEN <<Action("Talk", e, w.pos[e][1], w.pos[e][2])>>
                            ELSE <<>>) \o <<Action("Wait", e, 0, 0)>>,
                         target_tile |-> t,
                         pee_duration |-> duration,
                         last_peed |-> IF duration < 1 THEN w.turn_count
                                       ELSE peed ] }
            ELSE Kept(mosey(w, e, t), st.pee_duration, peed) :
            t \in IF w.pos[e] # st.target_tile THEN pick_toilet(w, e)
                  ELSE { st.target_tile } }

\* PeeNPC.decide
PeeNPC_decide(w, e, st, peed) ==
    UNION { IF w.pos[e] = t
            THEN LET duration == st.pee_duration - 1
                     company == \E o \in Entities \ {e} :
                                   RoomAt(w.pos[o]) = RoomAt(w.pos[e])
                 IN  { [ intent |->
                           (IF company
                            THEN <<Action("Talk", e, w.pos[e][1], w.pos[e][2])>>
                            ELSE <<>>) \o <<Action("Wait", e, 0, 0)>>,
                         target_tile |-> t,
                         pee_duration |-> duration,
                         last_peed |-> IF duration < 1 THEN w.turn_count
                                       ELSE peed ] }
            ELSE Kept(mosey(w, e, t), st.pee_duration, peed) :
            t \in IF w.pos[e] # st.target_tile THEN pick_toilet(w, e)
                  ELSE { st.target_tile } }

decide(w, e, st, peed) ==
    CASE st.kind = "DefaultNPC" ->
           Kept(DefaultNPC_decide(w, e, st), st.pee_duration, peed)
      [] st.kind = "BeingEatenNPC" ->
           Kept(BeingEatenNPC_decide(w, e, st), st.pee_duration, peed)
      [] st.kind = "PeeNPC" -> PeeNPC_decide(w, e, st, peed)

\* The loop of BaseAI.perform over the intent, from its i-th action on.  It
\* yields the world, the actions performed with their outcomes, and whether
\* a Python fault escaped.
RunResult(wd, done, faulted) == [w |-> wd, log |-> done, fault |-> faulted]

\* Mutant: an Impossible is passed over and the loop goes on.
RECURSIVE PerformIntent_KeepsGoing(_, _, _, _)
PerformIntent_KeepsGoing(wd, plan, i, done) ==
    IF i > Len(plan) THEN RunResult(wd, done, FALSE)
    ELSE LET r == perform(wd, plan[i])
             done1 == Append(done, [a |-> plan[i], res |-> r.res,
                                    meleed |-> r.meleed])
         IN  IF r.res = "AttributeError" THEN RunResult(r.w, done1, TRUE)
             ELSE IF r.meleed THEN RunResult(r.w, done1, FALSE)
             ELSE PerformIntent_KeepsGoing(r.w, plan, i + 1, done1)

RECURSIVE PerformIntent(_, _, _, _)
PerformIntent(wd, plan, i, done) ==
    IF i > Len(plan) THEN RunResult(wd, done, FALSE)
    ELSE LET r == perform(wd, plan[i])
             done1 == Append(done, [a |-> plan[i], res |-> r.res,
                                    meleed |-> r.meleed])
         IN  IF r.res = "AttributeError" THEN RunResult(r.w, done1, TRUE)
             ELSE IF r.res = "Impossible" THEN RunResult(r.w, done1, FALSE)
             ELSE IF r.meleed THEN RunResult(r.w, done1, FALSE)
             ELSE PerformIntent(r.w, plan, i + 1, done1)

\* The override priorities of DefaultNPC and of its subclasses.
is_being_eaten(st, eaten) == st.kind \in {"DefaultNPC", "PeeNPC"} /\ eaten

panicking(st) == FALSE

\* Mutant: the need is felt as soon as the threshold is reached.
has_to_pee_AtThreshold(st, turn, peed) ==
    st.kind = "DefaultNPC" /\ turn - peed >= NeedThreshold

has_to_pee(st, turn, peed) == st.kind = "DefaultNPC" /\ turn - peed > NeedThreshold

\* Mutant: the need timer is looked at before the BeingEaten status.
override_NeedFirst(st, eaten, turn, peed) ==
    IF has_to_pee(st, turn, peed) THEN "PeeNPC"
    ELSE IF is_being_eaten(st, eaten) THEN "BeingEatenNPC"
    ELSE "None"

\* DefaultNPC.override: the kind of strategy that preempts st, if any.
override(st, eaten, turn, peed) ==
    IF is_being_eaten(st, eaten) THEN "BeingEatenNPC"
    ELSE IF panicking(st) THEN "None"
    ELSE IF has_to_pee(st, turn, peed) THEN "PeeNPC"
    ELSE "None"

\* Mutant: the need-driven strategy never hands control back.
resolve_Stays(st, eaten) ==
    CASE st.kind = "DefaultNPC" -> "self"
      [] st.kind = "BeingEatenNPC" -> IF ~eaten THEN "parent" ELSE "None"
      [] st.kind = "PeeNPC" -> "None"

\* resolve: "self" to stay, "parent" to hand control back, "None".
resolve(st, eaten) ==
    CASE st.kind = "DefaultNPC" -> "self"
      [] st.kind = "BeingEatenNPC" -> IF ~eaten THEN "parent" ELSE "None"
      [] st.kind = "PeeNPC" -> IF st.pee_duration < 1 THEN "parent" ELSE "None"

TurnResult(wd, stk, faulted, who, plan, done, peed) ==
    [ w |-> wd, stack |-> stk, fault |-> faulted, last_peed |-> peed,
      log |-> [entity |-> who, intent |-> plan, performed |-> done] ]

\* The strategies that define override and resolve: DefaultNPC and its
\* subclasses.  BaseAI and Action define neither.
Routine == {"DefaultNPC", "BeingEatenNPC", "PeeNPC"}

\* Mutant: the override is constructed without its parent.
RECURSIVE BaseAI_perform_Orphan(_, _, _, _, _)
BaseAI_perform_Orphan(w, e, stack, eaten, peed) ==
    LET st == Head(stack)
        over == override(st, eaten, w.turn_count, peed)
    IN  IF st.kind \notin Routine
        THEN { TurnResult(w, stack, TRUE, e, <<>>, <<>>, peed) }
        ELSE IF over # "None"
        THEN BaseAI_perform_Orphan(w, e, <<Strategy(over, NoTile)>>,
                                   eaten, peed)
        ELSE IF resolve(st, eaten) = "parent"
        THEN BaseAI_perform_Orphan(w, e, Tail(stack), eaten, peed)
        ELSE { LET run == PerformIntent(w, d.intent, 1, <<>>)
               IN  TurnResult(run.w,
                              <<[st EXCEPT !.target_tile = d.target_tile,
                                           !.pee_duration = d.pee_duration]>>
                              \o Tail(stack),
                              run.fault, e, d.intent, run.log, d.last_peed) :
               d \in decide(w, e, st, peed) }

\* BaseAI.perform for the actor's active strategy (the head of its stack):
\* every outcome, as the new world, the new stack and the record of the turn.
\* On a strategy without an override attribute the second statement of
\* perform raises AttributeError, the intent just emptied.
RECURSIVE BaseAI_perform(_, _, _, _, _)
BaseAI_perform(w, e, stack, eaten, peed) ==
    LET st == Head(stack)
        over == override(st, eaten, w.turn_count, peed)
    IN  IF st.kind \notin Routine
        THEN { TurnResult(w, stack, TRUE, e, <<>>, <<>>, peed) }
        ELSE IF over # "None"
        THEN BaseAI_perform(w, e, <<Strategy(over, NoTile)>> \o stack,
                            eaten, peed)
        ELSE IF resolve(st, eaten) = "parent"
        THEN BaseAI_perform(w, e, Tail(stack), eaten, peed)
        ELSE { LET run == PerformIntent(w, d.intent, 1, <<>>)
               IN  TurnResult(run.w,
                              <<[st EXCEPT !.target_tile = d.target_tile,
                                           !.pee_duration = d.pee_duration]>>
                              \o Tail(stack),
                              run.fault, e, d.intent, run.log, d.last_peed) :
               d \in decide(w, e, st, peed) }

\* ---------------------------------------------------------- initial worlds
NoAction == Action("None", NoEntity, 0, 0)

NoOutcome == [a |-> NoAction, res |-> "none", reason |-> "", meleed |-> FALSE]

\* engine, player and floor as constructed, positions apart.
InitRest ==
    /\ parent = [i \in Items |-> GAMEMAP]
    /\ inventory = [a \in Actors |-> <<>>]
    /\ hp = [a \in Actors |-> MaxHP]
    /\ cause_of_death = ""
    /\ floor_number = 1
    /\ turn_count = 0
    /\ new_messages = <<>>
    /\ new_history = <<>>
    /\ generated = 0

\* Cells the player may have walked to before the actions under test.
StartCells == { upstairs_location(1), <<1, 0>>, downstairs_location(1) }

\* The world with the running handler's appended-output cleared.
Fresh(w) ==
    [w EXCEPT !.new_messages = <<>>, !.new_history = <<>>, !.generated = 0]

SetWorld(w) ==
    /\ pos' = w.pos
    /\ parent' = w.parent
    /\ inventory' = w.inventory
    /\ hp' = w.hp
    /\ cause_of_death' = w.cause_of_death
    /\ floor_number' = w.floor_number
    /\ turn_count' = w.turn_count
    /\ new_messages' = w.new_messages
    /\ new_history' = w.new_history
    /\ generated' = w.generated

\* tcod.map.compute_fov: the cells within the radius of the origin that no
\* opaque tile hides.
FovRadius == 8

Between(fl, o, c) ==
    { m \in CellsOf(fl) \ {o, c} :
        /\ Abs(m[1] - o[1]) <= Abs(c[1] - o[1])
        /\ Abs(m[2] - o[2]) <= Abs(c[2] - o[2])
        /\ (m[1] - o[1]) * (c[1] - o[1]) >= 0
        /\ (m[2] - o[2]) * (c[2] - o[2]) >= 0
        /\ 2 * Abs((c[1] - o[1]) * (m[2] - o[2]) - (c[2] - o[2]) * (m[1] - o[1]))
             <= Chebyshev(o, c) }

compute_fov(fl, origin, radius) ==
    { c \in CellsOf(fl) :
        /\ (c[1] - origin[1]) * (c[1] - origin[1])
             + (c[2] - origin[2]) * (c[2] - origin[2]) <= radius * radius
        /\ \A m \in Between(fl, origin, c) : TileTransparent(Tiles(fl, m)) }

\* Engine.fov
fov(w) == compute_fov(w.floor_number, w.pos[PLAYER], FovRadius)

\* ------------------------------------------------------ HostileEnemy
NoDecision ==
    [ entity |-> NoEntity, intent |-> <<>>, target |-> NoEntity,
      distance |-> 0, xy |-> NoTile ]

\* What pick_target returns, with the last_target it leaves, whether it sent
\* the notice, and the path get_path_to found to xy (decide asks for the
\* same path again).
Picked(who, d, c, remembered, noticed, p) ==
    [ target |-> who, distance |-> d, xy |-> c, last_target |-> remembered,
      spotted |-> noticed, path |-> p ]

\* Mutant: the place is forgotten once it has been looked up.
LastKnown_Forgets(w, e, st) ==
    IF st.last_target # NoTile
    THEN { IF Len(p) # 0
           THEN Picked(NoEntity, Len(p), st.last_target, NoTile, FALSE, p)
           ELSE Picked(NoEntity, 0, NoTile, NoTile, FALSE, <<>>) :
           p \in full_path_to(w, e, st.last_target) }
    ELSE { Picked(NoEntity, 0, NoTile, st.last_target, FALSE, <<>>) }

\* pick_target from "if self.last_target" on.
LastKnown(w, e, st) ==
    IF st.last_target # NoTile
    THEN { IF Len(p) # 0
           THEN Picked(NoEntity, Len(p), st.last_target, st.last_target,
                       FALSE, p)
           ELSE Picked(NoEntity, 0, NoTile, st.last_target, FALSE, <<>>) :
           p \in full_path_to(w, e, st.last_target) }
    ELSE { Picked(NoEntity, 0, NoTile, st.last_target, FALSE, <<>>) }

\* Mutant: the notice is sent whenever the player is picked.
HostileEnemy_pick_target_Noisy(w, e, st) ==
    IF w.pos[PLAYER] \in compute_fov(w.floor_number, w.pos[e], FovRadius)
    THEN UNION { IF Len(p) # 0
                 THEN { Picked(PLAYER, Len(p), w.pos[PLAYER], w.pos[PLAYER],
                               TRUE, p) }
                 ELSE LastKnown(w, e, st) :
                 p \in full_path_to(w, e, w.pos[PLAYER]) }
    ELSE LastKnown(w, e, st)

\* HostileEnemy.pick_target: the player when it is in the actor's field of
\* view and a path leads to it, else the place it was last seen at.
HostileEnemy_pick_target(w, e, st) ==
    IF w.pos[PLAYER] \in compute_fov(w.floor_number, w.pos[e], FovRadius)
    THEN UNION { IF Len(p) # 0
                 THEN { Picked(PLAYER, Len(p), w.pos[PLAYER], w.pos[PLAYER],
                               st.last_target = NoTile, p) }
                 ELSE LastKnown(w, e, st) :
                 p \in full_path_to(w, e, w.pos[PLAYER]) }
    ELSE LastKnown(w, e, st)

\* Mutant: the loop bumps into whatever is on the path.
RECURSIVE HostileSteps_Through(_, _, _, _, _)
HostileSteps_Through(w, e, from, path, target) ==
    IF path = <<>> THEN <<>>
    ELSE LET m == Head(path)
         IN  <<Action("Bump", e, m[1] - from[1], m[2] - from[2])>>
             \o HostileSteps_Through(w, e, m, Tail(path), target)

\* The loop of HostileEnemy.decide over the first cells of the path: it
\* stops at a cell that is not walkable, unless that cell is the target's.
RECURSIVE HostileSteps(_, _, _, _, _)
HostileSteps(w, e, from, path, target) ==
    IF path = <<>> THEN <<>>
    ELSE LET m == Head(path)
         IN  IF /\ ~tile_is_walkable(w, m)
                /\ (target = NoEntity \/ m # w.pos[target])
             THEN <<>>
             ELSE <<Action("Bump", e, m[1] - from[1], m[2] - from[2])>>
                  \o HostileSteps(w, e, m, Tail(path), target)

\* path[0:k]
Slice(path, k) == SubSeq(path, 1, IF Len(path) < k THEN Len(path) ELSE k)

\* Mutant: the adjacent Bump points from the destination to the actor.
HostileEnemy_intent_Reversed(w, e, t) ==
    IF t.xy = NoTile THEN <<Action("Wait", e, 0, 0)>>
    ELSE IF t.distance = 1
    THEN <<Action("Bump", e, w.pos[e][1] - t.xy[1], w.pos[e][2] - t.xy[2])>>
    ELSE LET bumps == HostileSteps(w, e, w.pos[e],
                                   Slice(t.path, move_speed(e)), t.target)
         IN  IF Len(bumps) > 0 THEN bumps ELSE <<Action("Wait", e, 0, 0)>>

\* HostileEnemy.decide after pick_target returned t: the intent.
HostileEnemy_intent(w, e, t) ==
    IF t.xy = NoTile THEN <<Action("Wait", e, 0, 0)>>
    ELSE IF t.distance = 1
    THEN <<Action("Bump", e, t.xy[1] - w.pos[e][1], t.xy[2] - w.pos[e][2])>>
    ELSE LET bumps == HostileSteps(w, e, w.pos[e],
                                   Slice(t.path, move_speed(e)), t.target)
         IN  IF Len(bumps) > 0 THEN bumps ELSE <<Action("Wait", e, 0, 0)>>

\* HostileEnemy.decide: every outcome, as the intent, what pick_target
\* resolved, and the world and strategy it leaves.
HostileEnemy_decide(w, e, st) ==
    { [ intent |-> HostileEnemy_intent(w, e, t),
        picked |-> t,
        w |-> IF t.spotted THEN add_message(w, "The ? spotted you!") ELSE w,
        st |-> [st EXCEPT !.last_target = t.last_target] ] :
      t \in HostileEnemy_pick_target(w, e, st) }

\* Mutant: explored is overwritten with visible.
update_fov_Overwrite(vis, expl, mode, mask) ==
    LET vis1 == IF mode # "overview" THEN mask ELSE vis
    IN  [visible |-> vis1, explored |-> vis1]

\* Engine.update_fov, as the new (visible, explored) planes.
update_fov(vis, expl, mode, mask) ==
    LET vis1 == IF mode # "overview" THEN mask ELSE vis
    IN  [visible |-> vis1, explored |-> expl \cup vis1]

NoTurn == [entity |-> NoEntity, intent |-> <<>>, performed |-> <<>>]

\* No get_path_to() has been called.
NoCall == [dest |-> NoTile, walkable |-> TRUE, cost |-> <<>>]

InitEngine ==
    /\ path_call = NoCall
    /\ ai = [n \in NPCs |-> <<Strategy("DefaultNPC", NoTile)>>]
    /\ being_eaten = {}
    /\ last_peed = [n \in NPCs |-> 0]
    /\ phase = "idle"
    /\ queue = <<>>
    /\ acted = <<>>
    /\ turn_log = NoTurn
    /\ ret = "none"
    /\ crashed = FALSE
    /\ visible = {}
    /\ explored = {}
    /\ game_mode = "normal"
    /\ decision = NoDecision
    /\ lingering = [n \in NPCs |-> 0]

\* A dungeon as GameMap constructs it: the player not placed, no stairs.
NoPlaces ==
    [ player |-> NoTile, upstairs_location |-> NoTile,
      downstairs_location |-> NoTile, down_stairs |-> {} ]

\* No maze is being carved.
NoMaze == [pc |-> "idle"]

\* No cell is being solidified.
NoChunk == [pc |-> "idle"]

\* Nothing is being placed.
NoSpawn == [pc |-> "idle"]

\* The tile tables are not under study.
NoTables == [pc |-> "idle"]

\* The shuttle gate is not under study.
NoShip == [pc |-> "idle"]

\* No enemy phase is followed on its own.
NoTurns == [pc |-> "idle"]

SideIdle ==
    /\ maze = NoMaze
    /\ chunked = NoChunk
    /\ spawn = NoSpawn
    /\ tables = NoTables
    /\ ship = NoShip
    /\ turns = NoTurns

\* No map is being generated.
GenOff ==
    /\ rooms = <<>>
    /\ attempts = 0
    /\ dungeon = {}
    /\ gen = "idle"
    /\ depth = 0
    /\ placed = NoPlaces

GenIdle == GenOff /\ SideIdle

InitDriver == InitEngine /\ GenIdle

\* ------------------------------------------- the action layer on its own
InitActions ==
    /\ \E c \in StartCells :
          pos = [e \in Entities |-> IF e = PLAYER THEN c ELSE SpawnXY(e)]
    /\ InitRest
    /\ InitDriver
    /\ last = NoOutcome
    /\ steps = 0

\* One call of perform() on an action of class c bound to a living actor.
Perform(c, e, dx, dy) ==
    LET a == Action(c, e, dx, dy)
    IN  /\ steps < MaxSteps
        /\ last.res # "AttributeError"
        /\ is_alive(World, e)
        /\ LET r == perform(Fresh(World), a)
           IN  /\ SetWorld(r.w)
               /\ last' = [a |-> a, res |-> r.res, reason |-> r.reason,
                           meleed |-> r.meleed]
        /\ steps' = steps + 1
        /\ UNCHANGED driver_vars

MovementStep ==
    \E e \in Actors, d \in DIRECTIONS : Perform("Movement", e, d[1], d[2])

BumpStep ==
    \E e \in Actors, d \in DIRECTIONS : Perform("Bump", e, d[1], d[2])

MeleeStep ==
    \E e \in Actors, d \in DIRECTIONS : Perform("Melee", e, d[1], d[2])

TalkStep ==
    \E e \in Actors, d \in DIRECTIONS : Perform("Talk", e, d[1], d[2])

PickupStep == \E e \in Actors : Perform("Pickup", e, 0, 0)

WaitStep == \E e \in Actors : Perform("Wait", e, 0, 0)

TakeStairsStep == \E e \in Actors : Perform("TakeStairs", e, 0, 0)

NextActions ==
    \/ MovementStep
    \/ BumpStep
    \/ MeleeStep
    \/ TalkStep
    \/ PickupStep
    \/ WaitStep
    \/ TakeStairsStep

SpecActions == InitActions /\ [][NextActions]_vars

\* ------------------------------------------------------- the turn driver
Init ==
    /\ \E c \in StartCells :
          pos = [e \in Entities |-> IF e = PLAYER THEN c ELSE SpawnXY(e)]
    /\ InitRest
    /\ InitDriver
    /\ last = NoOutcome
    /\ steps = 0

Outcome(act, r) ==
    [a |-> act, res |-> r.res, reason |-> r.reason, meleed |-> r.meleed]

\* Mutant: the enemies are taken in the order they were spawned in.
enemies_AsSpawned(w) ==
    SelectSeq(<<"npc1", "npc2">>, LAMBDA n : n \in game_map_actors(w))

\* handle_enemy_turns: the enemies, sorted by id.
enemies(w) == ById(game_map_actors(w) \ {PLAYER})

\* The planes of the floor the world is on: a generated floor starts dark.
PlanesOf(w) ==
    IF w.generated > 0 THEN [visible |-> {}, explored |-> {}]
    ELSE [visible |-> visible, explored |-> explored]

\* The tail of handle_action: update_fov() and return True.
ReturnTrue(w) ==
    LET p == PlanesOf(w)
        q == update_fov(p.visible, p.explored, game_mode, fov(w))
    IN  /\ visible' = q.visible
        /\ explored' = q.explored
        /\ ret' = "True"
        /\ phase' = "idle"
        /\ queue' = <<>>

\* EventHandler.handle_action(None)
handle_action_None ==
    /\ phase = "idle"
    /\ ~crashed
    /\ is_alive(World, PLAYER)
    /\ SetWorld(Fresh(World))
    /\ last' = NoOutcome
    /\ ret' = "False"
    /\ acted' = <<>>
    /\ UNCHANGED << steps, path_call, ai, being_eaten, last_peed, phase, queue, turn_log,
                    crashed, visible, explored, game_mode,
                    extra_vars >>

\* Mutant: nothing is caught.
except_Impossible_Missing(r) == FALSE

\* The except clause of handle_action.
except_Impossible(r) == r.res = "Impossible"

\* EventHandler.handle_action(action), up to the loop of handle_enemy_turns,
\* for the player's action of class c.
handle_action(c, dx, dy) ==
    /\ phase = "idle"
    /\ ~crashed
    /\ is_alive(World, PLAYER)
    /\ turn_count < MaxTurn
    /\ LET a == Action(c, PLAYER, dx, dy)
           r == perform(Fresh(World), a)
       IN  /\ last' = Outcome(a, r)
           /\ acted' = <<>>
           /\ CASE r.res = "AttributeError" ->
                     /\ SetWorld(r.w)
                     /\ crashed' = TRUE
                     /\ UNCHANGED << ai, phase, queue, ret, visible, explored >>
                [] except_Impossible(r) ->
                     /\ SetWorld(add_message(r.w, r.reason))
                     /\ ret' = "False"
                     /\ UNCHANGED << ai, phase, queue, crashed, visible,
                                     explored >>
                [] OTHER ->
                     /\ SetWorld(r.w)
                     /\ ai' = IF r.w.generated > 0
                              THEN [n \in NPCs |->
                                      <<Strategy("DefaultNPC", NoTile)>>]
                              ELSE ai
                     /\ crashed' = FALSE
                     /\ IF is_alive(r.w, PLAYER)
                        THEN /\ phase' = "enemy_turns"
                             /\ queue' = enemies(r.w)
                             /\ ret' = "running"
                             /\ LET p == PlanesOf(r.w)
                                IN  /\ visible' = p.visible
                                    /\ explored' = p.explored
                        ELSE ReturnTrue(r.w)
    /\ UNCHANGED << steps, path_call, being_eaten, last_peed, turn_log, game_mode,
                    extra_vars >>

\* The actions the key bindings of MainGameEventHandler hand over.
PlayerTurn ==
    \/ \E d \in DIRECTIONS : handle_action("Bump", d[1], d[2])
    \/ \E c \in {"Wait", "TakeStairs"} : handle_action(c, 0, 0)

\* How an ai.perform() came back to the loop of handle_enemy_turns.
Ended(t) ==
    IF t.fault THEN "AttributeError"
    ELSE IF t.log.performed = <<>> THEN "return"
    ELSE LET l == t.log.performed[Len(t.log.performed)]
         IN  IF l.res = "Impossible" THEN "Impossible"
             ELSE IF l.meleed THEN "meleed"
             ELSE "return"

\* One round of the first loop of handle_enemy_turns.
EnemyTurn ==
    /\ phase = "enemy_turns"
    /\ queue # <<>>
    /\ ~crashed
    /\ LET e == Head(queue)
       IN  IF ai[e] = <<>>
           THEN /\ queue' = Tail(queue)
                /\ UNCHANGED << pos, parent, inventory, hp, cause_of_death,
                                floor_number, turn_count, new_messages,
                                new_history, generated, ai, acted, turn_log,
                                phase, ret, crashed, visible, explored,
                                last_peed >>
           ELSE \E t \in BaseAI_perform(World, e, ai[e], e \in being_eaten,
                                        last_peed[e]) :
                  /\ SetWorld(t.w)
                  /\ ai' = [ai EXCEPT ![e] = t.stack]
                  /\ last_peed' = [last_peed EXCEPT ![e] = t.last_peed]
                  /\ acted' = Append(acted, [entity |-> e, ended |-> Ended(t)])
                  /\ turn_log' = t.log
                  /\ crashed' = t.fault
                  /\ IF t.fault
                     THEN UNCHANGED << phase, queue, ret, visible, explored >>
                     ELSE IF ~is_alive(t.w, PLAYER)
                     THEN ReturnTrue(t.w)
                     ELSE /\ queue' = Tail(queue)
                          /\ UNCHANGED << phase, ret, visible, explored >>
    /\ UNCHANGED << last, steps, path_call, being_eaten, game_mode,
                    extra_vars >>

\* The rest of handle_enemy_turns (post-turns, turn_count) and of
\* handle_action (update_fov, return True).  The records of the call that
\* has returned (last, acted, turn_log, the appended output) are dropped.
EndTurn ==
    /\ phase = "enemy_turns"
    /\ queue = <<>>
    /\ ~crashed
    /\ SetWorld([Fresh(World) EXCEPT !.turn_count = @ + 1])
    /\ ReturnTrue(World)
    /\ last' = NoOutcome
    /\ acted' = <<>>
    /\ turn_log' = NoTurn
    /\ UNCHANGED << steps, path_call, ai, being_eaten, last_peed, crashed, game_mode,
                    extra_vars >>

Next ==
    \/ handle_action_None
    \/ PlayerTurn
    \/ EnemyTurn
    \/ EndTurn

Spec == Init /\ [][Next]_vars



\* --------------------------------------- BaseAI.perform on a decided intent
\* decide() is abstract in BaseAI: here it may leave any intent of at most
\* MaxIntent bumps, movements and waits of the actor.
MaxIntent == 2

Moves == ({"Bump", "Movement"} \X DIRECTIONS) \cup {<<"Wait", <<0, 0>>>>}

IntentOf(e, ms) ==
    [k \in DOMAIN ms |-> Action(ms[k][1], e, ms[k][2][1], ms[k][2][2])]

InitIntent ==
    /\ \E c \in StartCells :
          pos = [e \in Entities |-> IF e = PLAYER THEN c ELSE SpawnXY(e)]
    /\ InitRest
    /\ InitDriver
    /\ last = NoOutcome
    /\ steps = 0

\* ai.perform() of an actor whose strategy has decided on the intent.
perform_intent(e, ms) ==
    /\ turn_log = NoTurn
    /\ LET plan == IntentOf(e, ms)
           run == PerformIntent(Fresh(World), plan, 1, <<>>)
       IN  /\ SetWorld(run.w)
           /\ turn_log' = [entity |-> e, intent |-> plan,
                           performed |-> run.log]
           /\ crashed' = run.fault
    /\ UNCHANGED << last, steps, ai, being_eaten, last_peed, phase, queue,
                    path_call, acted, ret, visible, explored, game_mode,
                    extra_vars >>

NextIntent ==
    \E e \in NPCs, n \in 1 .. MaxIntent :
       \E ms \in [1 .. n -> Moves] : perform_intent(e, ms)

SpecIntent == InitIntent /\ [][NextIntent]_vars

\* ------------------------------------------------- update_fov on one floor
\* The sight radii tried, in place of the engine's fov_radius.
MaxRadius == 1

InitFov ==
    /\ \E c \in StartCells :
          pos = [e \in Entities |-> IF e = PLAYER THEN c ELSE SpawnXY(e)]
    /\ InitRest
    /\ InitDriver
    /\ last = NoOutcome
    /\ steps = 0

\* The player is put on cell o and update_fov() runs on a mask of radius r.
look(o, r) ==
    /\ steps < MaxSteps
    /\ TileWalkable(Tiles(floor_number, o))
    /\ \A n \in NPCs : pos[n] # o
    /\ pos' = [pos EXCEPT ![PLAYER] = o]
    /\ LET q == update_fov(visible, explored, game_mode,
                           compute_fov(floor_number, o, r))
       IN  /\ visible' = q.visible
           /\ explored' = q.explored
    /\ steps' = steps + 1
    /\ UNCHANGED << parent, inventory, hp, cause_of_death, floor_number,
                    turn_count, new_messages, new_history, generated, last,
                    ai, being_eaten, last_peed, phase, queue, path_call,
                    acted, turn_log, ret, crashed, game_mode,
                    extra_vars >>

Look == \E o \in Cells, r \in 0 .. MaxRadius : look(o, r)

\* The map's game_mode is switched to or from the overview.
SetGameMode ==
    /\ steps < MaxSteps
    /\ game_mode' = IF game_mode = "overview" THEN "normal" ELSE "overview"
    /\ steps' = steps + 1
    /\ UNCHANGED << world_vars, last, ai, being_eaten, last_peed, phase,
                    queue, path_call, acted, turn_log, ret, crashed, visible,
                    explored,
                    extra_vars >>

NextFov == Look \/ SetGameMode

SpecFov == InitFov /\ [][NextFov]_vars

\* ---------------------------------------------- the cost grid of get_path_to
\* The actors stand anywhere on the floor, a fence included.
InitCost ==
    /\ \E f \in [Actors -> Cells] :
          pos = [e \in Entities |-> IF e \in Actors THEN f[e] ELSE SpawnXY(e)]
    /\ InitRest
    /\ InitDriver
    /\ last = NoOutcome
    /\ steps = 0

\* get_path_to(dest, walkable=...) of an actor's strategy, up to the graph.
get_path_to_cost(dest, walkable) ==
    /\ path_call = NoCall
    /\ path_call' = [dest |-> dest, walkable |-> walkable,
                     cost |-> CostGrid(World, dest, PathCost, walkable)]
    /\ UNCHANGED << world_vars, last, steps, ai, being_eaten, last_peed, phase,
                    queue, acted, turn_log, ret, crashed, visible, explored,
                    game_mode,
                    extra_vars >>

NextCost == \E dest \in Cells, walkable \in BOOLEAN : get_path_to_cost(dest, walkable)

SpecCost == InitCost /\ [][NextCost]_vars

\* ------------------------------------------- hostile actors in the hall
\* Both NPCs carry a freshly constructed HostileEnemy; they stand at one of
\* two places each, and the player comes in at the south-east corner.
HostileStarts(e) ==
    IF e = "npc2" THEN { <<5, 5>>, <<4, 5>> } ELSE { <<3, 8>>, <<5, 6>> }

\* The hall with both NPCs carrying a freshly constructed strategy of the
\* class kind.
InitHall(kind) ==
    /\ \E c1 \in HostileStarts("npc1"), c2 \in HostileStarts("npc2") :
          pos = [e \in Entities |->
                   CASE e = PLAYER -> <<5, 8>>
                     [] e = "npc1" -> c1
                     [] e = "npc2" -> c2
                     [] OTHER -> <<3, 7>>]
    /\ parent = [i \in Items |-> GAMEMAP]
    /\ inventory = [a \in Actors |-> <<>>]
    /\ hp = [a \in Actors |-> MaxHP]
    /\ cause_of_death = ""
    /\ floor_number = ArenaFloor
    /\ turn_count = 0
    /\ new_messages = <<>>
    /\ new_history = <<>>
    /\ generated = 0
    /\ path_call = NoCall
    /\ ai = [n \in NPCs |-> <<Strategy(kind, NoTile)>>]
    /\ being_eaten = {}
    /\ last_peed = [n \in NPCs |-> 0]
    /\ phase = "idle"
    /\ queue = <<>>
    /\ acted = <<>>
    /\ turn_log = NoTurn
    /\ ret = "none"
    /\ crashed = FALSE
    /\ visible = {}
    /\ explored = {}
    /\ game_mode = "normal"
    /\ decision = NoDecision
    /\ lingering = [n \in NPCs |-> 0]
    /\ GenIdle
    /\ last = NoOutcome
    /\ steps = 0

InitHostile == InitHall("HostileEnemy")

\* The player walks one cell.
PlayerStep(dx, dy) ==
    LET r == perform(Fresh(World), Action("Movement", PLAYER, dx, dy))
    IN  /\ ~crashed
        /\ r.res = "ok"
        /\ SetWorld(r.w)
        /\ decision' = NoDecision
        /\ UNCHANGED << last, steps, ai, being_eaten, last_peed, phase, queue,
                        path_call, acted, turn_log, ret, crashed, visible,
                        explored, game_mode, lingering, gen_vars,
                        side_vars >>

\* decide() of the actor's HostileEnemy.
HostileDecide(e) ==
    /\ ~crashed
    /\ \E d \in HostileEnemy_decide(Fresh(World), e, Head(ai[e])) :
          /\ SetWorld(d.w)
          /\ ai' = [ai EXCEPT ![e] = <<d.st>>]
          /\ decision' = [ entity |-> e, intent |-> d.intent,
                            target |-> d.picked.target,
                            distance |-> d.picked.distance,
                            xy |-> d.picked.xy ]
    /\ UNCHANGED << last, steps, being_eaten, last_peed, phase, queue,
                    path_call, acted, turn_log, ret, crashed, visible,
                    explored, game_mode, lingering, gen_vars,
                    side_vars >>

\* The actor's turn: perform() of its HostileEnemy.
HostileTurn(e) ==
    /\ ~crashed
    /\ \E t \in BaseAI_perform(Fresh(World), e, ai[e], e \in being_eaten,
                                last_peed[e]) :
          /\ SetWorld(t.w)
          /\ ai' = [ai EXCEPT ![e] = t.stack]
          /\ last_peed' = [last_peed EXCEPT ![e] = t.last_peed]
          /\ turn_log' = t.log
          /\ crashed' = t.fault
    /\ decision' = NoDecision
    /\ UNCHANGED << last, steps, being_eaten, phase, queue,
                    path_call, acted, ret, visible, explored, game_mode,
                    lingering, gen_vars,
                    side_vars >>

NextHostile ==
    \/ \E d \in DIRECTIONS : PlayerStep(d[1], d[2])
    \/ \E e \in NPCs : HostileDecide(e)
    \/ \E e \in NPCs : HostileTurn(e)

SpecHostile == InitHostile /\ [][NextHostile]_vars

\* ------------------------------------------- decide() of a hostile actor
\* decide() called in the situations of the hall: the player at the
\* entrance, beside the pillar or behind it, the actor of move_speed 2 on
\* any floor cell, and each hostile actor not alerted yet or remembering a
\* floor cell, which somebody may stand on by now.
ArenaCells == ArenaRoom \ ArenaPillar

PlayerPlaces == { <<5, 8>>, <<4, 7>>, <<3, 6>>, <<3, 5>> }

Memories(e) ==
    IF e = "npc2" THEN ArenaCells \cup {NoTile}
    ELSE { NoTile, <<5, 8>>, <<3, 5>> }

InitDecide ==
    /\ \E c \in PlayerPlaces, c1 \in ArenaCells, c2 \in HostileStarts("npc2") :
          /\ Cardinality({c, c1, c2}) = 3
          /\ pos = [e \in Entities |->
                      CASE e = PLAYER -> c
                        [] e = "npc1" -> c1
                        [] e = "npc2" -> c2
                        [] OTHER -> <<3, 7>>]
    /\ \E t1 \in Memories("npc1"), t2 \in Memories("npc2") :
          ai = [n \in NPCs |->
                  << [Strategy("HostileEnemy", NoTile) EXCEPT
                        !.last_target = IF n = "npc1" THEN t1 ELSE t2] >>]
    /\ parent = [i \in Items |-> GAMEMAP]
    /\ inventory = [a \in Actors |-> <<>>]
    /\ hp = [a \in Actors |-> MaxHP]
    /\ cause_of_death = ""
    /\ floor_number = ArenaFloor
    /\ turn_count = 0
    /\ new_messages = <<>>
    /\ new_history = <<>>
    /\ generated = 0
    /\ path_call = NoCall
    /\ being_eaten = {}
    /\ last_peed = [n \in NPCs |-> 0]
    /\ phase = "idle"
    /\ queue = <<>>
    /\ acted = <<>>
    /\ turn_log = NoTurn
    /\ ret = "none"
    /\ crashed = FALSE
    /\ visible = {}
    /\ explored = {}
    /\ game_mode = "normal"
    /\ decision = NoDecision
    /\ lingering = [n \in NPCs |-> 0]
    /\ GenIdle
    /\ last = NoOutcome
    /\ steps = 0

NextDecide == \E e \in NPCs : HostileDecide(e)

\* ------------------------------------------------- statues in the hall
InitStatue == InitHall("Statue")

\* Statue.decide: the intent is one WaitAction.
Statue_decide(e) == << Action("Wait", e, 0, 0) >>

\* decide() of the actor's Statue.
StatueDecide(e) ==
    /\ ~crashed
    /\ decision' = [ entity |-> e, intent |-> Statue_decide(e),
                     target |-> NoEntity, distance |-> 0, xy |-> NoTile ]
    /\ UNCHANGED << world_vars, last, steps, ai, being_eaten, last_peed,
                    phase, queue, path_call, acted, turn_log, ret, crashed,
                    visible, explored, game_mode, lingering, gen_vars,
                    side_vars >>

NextStatue ==
    \/ \E d \in DIRECTIONS : PlayerStep(d[1], d[2])
    \/ \E e \in NPCs : StatueDecide(e)
    \/ \E e \in NPCs : HostileTurn(e)

SpecStatue == InitStatue /\ [][NextStatue]_vars

SpecDecide == InitDecide /\ [][NextDecide]_vars

\* ------------------------------------------- the routine of the NPCs
\* Each NPC is at its spawn point or has wandered into the hall; the need
\* timer has not run yet or has just passed its threshold.
NPCStarts(e) == { SpawnXY(e), <<1, 0>> }

InitNPC ==
    /\ \E c \in StartCells, c1 \in NPCStarts("npc1"), c2 \in NPCStarts("npc2") :
          /\ Cardinality({c, c1, c2}) = 3
          /\ pos = [e \in Entities |->
                      CASE e = PLAYER -> c
                        [] e = "npc1" -> c1
                        [] e = "npc2" -> c2
                        [] OTHER -> <<MapWidth - 1, 1>>]
    /\ parent = [i \in Items |-> GAMEMAP]
    /\ inventory = [a \in Actors |-> <<>>]
    /\ hp = [a \in Actors |-> MaxHP]
    /\ cause_of_death = ""
    /\ floor_number = 1
    /\ turn_count \in {0, NeedThreshold + 1}
    /\ new_messages = <<>>
    /\ new_history = <<>>
    /\ generated = 0
    /\ InitDriver
    /\ last = NoOutcome
    /\ steps = 0

\* The DefaultNPC at the bottom of an actor's stack.
Base(stack) == stack[Len(stack)]

\* One ai.perform() of an NPC, as handle_enemy_turns calls it.
NPCTurn(e) ==
    /\ ~crashed
    /\ steps < MaxCycles
    /\ steps' = steps + 1
    /\ \E t \in BaseAI_perform(Fresh(World), e, ai[e], e \in being_eaten,
                                last_peed[e]) :
          /\ SetWorld(t.w)
          /\ ai' = [ai EXCEPT ![e] = t.stack]
          /\ last_peed' = [last_peed EXCEPT ![e] = t.last_peed]
          /\ turn_log' = t.log
          /\ crashed' = t.fault
          /\ lingering' =
                [lingering EXCEPT ![e] =
                   IF Head(t.stack).kind # "DefaultNPC" THEN @
                   ELSE IF /\ pos[e] = Base(ai[e]).target_tile
                           /\ Head(t.stack).target_tile # NoTile
                   THEN @ + 1
                   ELSE 0]
    /\ UNCHANGED << last, being_eaten, phase, queue, path_call, acted, ret,
                    visible, explored, game_mode, decision, gen_vars,
                    side_vars >>

\* The BeingEaten status is put on an NPC, or taken off it.
SetBeingEaten(e, on) ==
    /\ ~crashed
    /\ (e \in being_eaten) # on
    /\ being_eaten' = IF on THEN being_eaten \cup {e} ELSE being_eaten \ {e}
    /\ UNCHANGED << world_vars, last, steps, ai, last_peed, phase, queue,
                    path_call, acted, turn_log, ret, crashed, visible,
                    explored, game_mode, extra_vars >>

NextNPC ==
    \/ \E e \in NPCs : NPCTurn(e)
    \/ \E e \in NPCs, on \in BOOLEAN : SetBeingEaten(e, on)

SpecNPC == InitNPC /\ [][NextNPC]_vars

\* ------------------------------------------------ the need of the NPCs
\* npc2 somewhere in its course through the need: following its routine
\* with the timer at or just under the threshold, on its way to the closet
\* with the need-driven strategy just constructed, or in the closet with a
\* part of the duration left.  npc1 has just satisfied its own need.
ClosetTile == <<1, MapHeight - 1>>

MaxTick == NeedThreshold + 2

InitPee ==
    /\ \E c2 \in { SpawnXY("npc2"), ClosetTile } :
          pos = [e \in Entities |->
                   CASE e = PLAYER -> upstairs_location(1)
                     [] e = "npc1" -> SpawnXY("npc1")
                     [] e = "npc2" -> c2
                     [] OTHER -> <<MapWidth - 1, 1>>]
    /\ turn_count \in {NeedThreshold, NeedThreshold + 1}
    /\ \E peed \in {0, 1}, kept \in {0, 1, 2, PeeDuration} :
          /\ kept # 0 => turn_count - peed > NeedThreshold
          /\ kept \in 1 .. PeeDuration - 1 => pos["npc2"] = ClosetTile
          /\ last_peed = [n \in NPCs |-> IF n = "npc2" THEN peed
                                         ELSE turn_count]
          /\ ai = [n \in NPCs |->
                     IF n = "npc2" /\ kept # 0
                     THEN << [Strategy("PeeNPC", ClosetTile) EXCEPT
                                !.pee_duration = kept],
                             Strategy("DefaultNPC", NoTile) >>
                     ELSE << Strategy("DefaultNPC", NoTile) >>]
    /\ parent = [i \in Items |-> GAMEMAP]
    /\ inventory = [a \in Actors |-> <<>>]
    /\ hp = [a \in Actors |-> MaxHP]
    /\ cause_of_death = ""
    /\ floor_number = 1
    /\ new_messages = <<>>
    /\ new_history = <<>>
    /\ generated = 0
    /\ path_call = NoCall
    /\ being_eaten = {}
    /\ phase = "idle"
    /\ queue = <<>>
    /\ acted = <<>>
    /\ turn_log = NoTurn
    /\ ret = "none"
    /\ crashed = FALSE
    /\ visible = {}
    /\ explored = {}
    /\ game_mode = "normal"
    /\ decision = NoDecision
    /\ lingering = [n \in NPCs |-> 0]
    /\ GenIdle
    /\ last = NoOutcome
    /\ steps = 0

\* The end of handle_enemy_turns: the turn is counted.
Tick ==
    /\ ~crashed
    /\ turn_count < MaxTick
    /\ turn_count' = turn_count + 1
    /\ UNCHANGED << pos, parent, inventory, hp, cause_of_death, floor_number,
                    new_messages, new_history, generated, last, steps, ai,
                    being_eaten, last_peed, phase, queue, path_call, acted,
                    turn_log, ret, crashed, visible, explored, game_mode,
                    extra_vars >>

NextPee ==
    \/ \E e \in NPCs : NPCTurn(e)
    \/ \E on \in BOOLEAN : SetBeingEaten("npc2", on)
    \/ Tick

SpecPee == InitPee /\ [][NextPee]_vars

\* --------------------------------------- the room-and-corridor generator
\* The arguments generate_dungeon hands over: the number of rooms wanted and
\* the range the side of a room is drawn from.
room_target == 2

room_min_size == 5

room_max_size == 6

rooms_chain == floor_number = 1

NoDoor == <<>>

\* A RectangularRoom: its corners, its doors and its target_area.
Room(x1, x2, y1, y2, door, door2, target_area) ==
    [ x1 |-> x1, x2 |-> x2, y1 |-> y1, y2 |-> y2, door |-> door,
      door2 |-> door2, target_area |-> target_area ]

width(r) == r.x2 - r.x1

height(r) == r.y2 - r.y1

area(r) == width(r) * height(r)

\* int((a + b) / 2) of two coordinates that are not negative.
\* Mutant: the first corner is taken for the centre.
center_Corner(r) == << r.x1, r.y1 >>

center(r) == << (r.x1 + r.x2) \div 2, (r.y1 + r.y2) \div 2 >>

inner(r) == (r.x1 + 1 .. r.x2 - 1) \X (r.y1 + 1 .. r.y2 - 1)

\* Mutant: only the sides are tested.
valid_SidesOnly(r) == ~(\E i \in {width(r), height(r)} : i < 5)

valid(r) ==
    /\ ~(\E i \in {width(r), height(r)} : i < 5)
    /\ area(r) >= r.target_area
    /\ (r.door[1] \notin {r.x1, r.x2} \/ r.door[2] \notin {r.y1, r.y2})

has_tile(r, tile) ==
    r.x1 <= tile[1] /\ r.x2 >= tile[1] /\ r.y1 <= tile[2] /\ r.y2 >= tile[2]

\* Mutant: the other room is taken one tile smaller on every side.
would_intersect_Inner(x1, x2, y1, y2, other) ==
    /\ x1 < other.x2 - 1
    /\ x2 > other.x1 + 1
    /\ y1 < other.y2 - 1
    /\ y2 > other.y1 + 1

would_intersect(x1, x2, y1, y2, other) ==
    x1 < other.x2 /\ x2 > other.x1 /\ y1 < other.y2 /\ y2 > other.y1

\* The growths the loop of RectangularRoom.__init__ collects for r.
Growths(r, x_dir, y_dir, others) ==
    { g \in { [r EXCEPT !.x1 = IF d[1] > -1 THEN @ ELSE @ - 1,
                        !.x2 = IF d[1] < 1 THEN @ ELSE @ + 1,
                        !.y1 = IF d[2] > -1 THEN @ ELSE @ - 1,
                        !.y2 = IF d[2] < 1 THEN @ ELSE @ + 1] :
               d \in { d \in { <<0, -1>>, <<0, 1>>, <<-1, 0>>, <<1, 0>> } :
                         ~ \/ <<d[1] + x_dir, d[2] + y_dir>> = <<0, 0>>
                           \/ (d[1] < 0 /\ r.x1 < 1)
                           \/ (d[1] > 0 /\ r.x2 >= GenWidth - 1)
                           \/ (d[2] < 0 /\ r.y1 < 1)
                           \/ (d[2] > 0 /\ r.y2 >= GenHeight - 1) } } :
        ~ \E i \in 1 .. Len(others) :
            would_intersect(g.x1, g.x2, g.y1, g.y2, others[i]) }

\* RectangularRoom.__init__: the rooms the growth loop can end with, from
\* the set growing of the rooms it can have reached.
RECURSIVE Grown(_, _, _, _)
Grown(growing, x_dir, y_dir, others) ==
    IF growing = {} THEN {}
    ELSE LET ended == { r \in growing :
                          \/ area(r) >= r.target_area
                          \/ Growths(r, x_dir, y_dir, others) = {} }
         IN  ended \cup
             Grown(UNION { Growths(r, x_dir, y_dir, others) :
                           r \in growing \ ended },
                   x_dir, y_dir, others)

RectangularRoom(x, y, x_dir, y_dir, others) ==
    UNION { Grown({ Room(x, x, y, y, <<x, y>>, NoDoor, target * target) },
                  x_dir, y_dir, others) :
            target \in room_min_size .. room_max_size }

\* Where a room is begun: << x, y, x_dir, y_dir, i >>, i the index of the
\* other room (0 for the first room).  The first room at a point two or
\* more away from the borders, a later one at a door in a wall of the other
\* room, the corners excepted.
Beginnings ==
    IF Len(rooms) = 0
    THEN { << x, y, 0, 0, 0 >> :
             x \in 2 .. GenWidth - 3, y \in 2 .. GenHeight - 3 }
    ELSE UNION {
           LET other == rooms[i]
           IN  { << x, y, 0, IF y = other.y1 THEN -1 ELSE 1, i >> :
                   x \in other.x1 + 1 .. other.x2 - 2,
                   y \in {other.y1, other.y2} }
               \cup
               { << x, y, IF x = other.x1 THEN -1 ELSE 1, 0, i >> :
                   y \in other.y1 + 1 .. other.y2 - 2,
                   x \in {other.x1, other.x2} } :
           i \in IF rooms_chain THEN {Len(rooms)} ELSE 1 .. Len(rooms) }

\* The second door that goes with a beginning: the other option popped from
\* the shuffled list, in the same wall.
Door2s(b) ==
    IF b[5] = 0 THEN { NoDoor }
    ELSE IF b[3] = 0
         THEN { << x2, b[2] >> :
                  x2 \in (rooms[b[5]].x1 + 1 .. rooms[b[5]].x2 - 2) \ {b[1]} }
         ELSE { << b[1], y2 >> :
                  y2 \in (rooms[b[5]].y1 + 1 .. rooms[b[5]].y2 - 2) \ {b[2]} }

\* Mutant: the doors are left as wall.
Carved_NoDoor(r, first) == inner(r)

\* The tiles generate_dungeon_map turns to floor for an accepted room.
Carved(r, first) ==
    IF first THEN inner(r)
    ELSE inner(r) \cup {r.door}
         \cup (IF r.door2 # NoDoor /\ has_tile(r, r.door2) THEN {r.door2}
               ELSE {})

\* The first room accepted takes the player and the up-stairs at its centre.
Placed(room, first) ==
    IF first
    THEN [placed EXCEPT !.player = center(room),
                        !.upstairs_location = center(room)]
    ELSE placed

InitGen ==
    /\ pos = [e \in Entities |-> SpawnXY(e)]
    /\ InitRest
    /\ InitEngine
    /\ last = NoOutcome
    /\ steps = 0
    /\ rooms = <<>>
    /\ attempts = 0
    /\ dungeon = {}
    /\ gen = "running"
    /\ depth = 0
    /\ placed = NoPlaces
    /\ SideIdle

main_frame ==
    << world_vars, last, steps, ai, being_eaten, last_peed, phase, queue,
       path_call, acted, turn_log, ret, crashed, visible, explored,
       game_mode, decision, lingering >>

gen_frame == << main_frame, side_vars >>

side_frame == << main_frame, gen_vars >>

except_maze == << side_frame, chunked, spawn, tables, ship, turns >>

except_chunked == << side_frame, maze, spawn, tables, ship, turns >>

except_spawn == << side_frame, maze, chunked, tables, ship, turns >>

except_tables == << side_frame, maze, chunked, spawn, ship, turns >>

except_ship == << side_frame, maze, chunked, spawn, tables, turns >>

except_turns == << side_frame, maze, chunked, spawn, tables, ship >>

\* One round of the loop of generate_dungeon_map.
Attempt ==
    /\ gen = "running"
    /\ Len(rooms) < room_target
    /\ attempts < max_attempts
    /\ attempts' = attempts + 1
    /\ \E b \in Beginnings :
          \E grown \in RectangularRoom(b[1], b[2], b[3], b[4], rooms) :
             IF ~valid(grown)
             THEN UNCHANGED << rooms, dungeon, placed >>
             ELSE \E door2 \in Door2s(b) :
                    LET room == [grown EXCEPT !.door2 = door2]
                    IN  /\ dungeon' = dungeon \cup Carved(room, Len(rooms) = 0)
                        /\ placed' = Placed(room, Len(rooms) = 0)
                        /\ rooms' = Append(rooms, room)
    /\ UNCHANGED << gen, depth, gen_frame >>

\* "start over if this attempt was botched": the function calls itself with
\* the same dungeon.
Restart ==
    /\ gen = "running"
    /\ ~(Len(rooms) < room_target /\ attempts < max_attempts)
    /\ attempts = max_attempts
    /\ depth < MaxRestarts
    /\ depth' = depth + 1
    /\ rooms' = <<>>
    /\ attempts' = 0
    /\ UNCHANGED << dungeon, placed, gen, gen_frame >>

\* The stairs are put in the last room: the layout is done, and the dungeon
\* goes to place_entities, after which it is returned.
Return ==
    /\ gen = "running"
    /\ ~(Len(rooms) < room_target /\ attempts < max_attempts)
    /\ attempts # max_attempts
    /\ dungeon' = dungeon \cup {center(rooms[Len(rooms)])}
    /\ placed' = [placed EXCEPT
                    !.downstairs_location = center(rooms[Len(rooms)]),
                    !.down_stairs = @ \cup {center(rooms[Len(rooms)])}]
    /\ gen' = "returned"
    /\ UNCHANGED << rooms, attempts, depth, gen_frame >>

NextGen == Attempt \/ Restart \/ Return

SpecGen == InitGen /\ [][NextGen]_vars

\* One activation of generate_dungeon_map: its loop, and its return when the
\* cap was not reached.
NextLayout == Attempt \/ Return

SpecLayout == InitGen /\ [][NextLayout]_vars

\* ------------------------------------------------------------ population
\* The names that the module entity_factories defines.
entity_factories == { "player", "NPC", "rock", "item_factories" }

ChunkSize == 6

\* SpawnChunk.__init__: the tiles of the chunk at chunk_coords.
SpawnChunk_tiles(chunk_coords) ==
    { t \in (0 .. GenWidth - 1) \X (0 .. GenHeight - 1) :
        /\ t[1] - chunk_coords[1] \in 0 .. ChunkSize - 1
        /\ t[2] - chunk_coords[2] \in 0 .. ChunkSize - 1 }

\* place_entities, called on the finished layout: its first SpawnChunk, at
\* (0, 0), collects its tiles and then reads entity_factories.enemy_sets,
\* an AttributeError when the module has no such name.
place_entities ==
    /\ gen = "returned"
    /\ spawn.pc = "idle"
    /\ IF "enemy_sets" \notin entity_factories
       THEN spawn' = [ pc |-> "AttributeError",
                       tiles |-> SpawnChunk_tiles(<<0, 0>>),
                       monsters |-> {}, items |-> {} ]
       ELSE spawn' = [ pc |-> "placing",
                       tiles |-> SpawnChunk_tiles(<<0, 0>>),
                       monsters |-> {}, items |-> {} ]
    /\ UNCHANGED except_spawn

NextPopulate == Attempt \/ Return \/ place_entities

SpecPopulate == InitGen /\ [][NextPopulate]_vars

\* ------------------------------------------------------------ tile_types
\* The texts a tile can be registered with are 1 .. MaxTexts.
MaxTexts == 3

\* One of the two if/else blocks of new_tile: the table afterwards and the
\* id the text gets; list.index(text) is the 0-based place of the first
\* element equal to text.
register_Always(list, text) ==
    [ table |-> Append(list, text), id |-> Len(list) ]

register(list, text) ==
    IF \E i \in 1 .. Len(list) : list[i] = text
    THEN [ table |-> list,
           id |-> (CHOOSE i \in 1 .. Len(list) :
                      /\ list[i] = text
                      /\ \A j \in 1 .. i - 1 : list[j] # text) - 1 ]
    ELSE [ table |-> Append(list, text), id |-> Len(list) ]

\* tile_types as imported: NAMES = [] and FLAVORS = [].
InitTiles ==
    /\ pos = [e \in Entities |-> SpawnXY(e)]
    /\ InitRest
    /\ InitEngine
    /\ GenOff
    /\ turns = NoTurns
    /\ ship = NoShip
    /\ maze = NoMaze
    /\ chunked = NoChunk
    /\ spawn = NoSpawn
    /\ last = NoOutcome
    /\ steps = 0
    /\ tables = [ pc |-> "loaded", NAMES |-> <<>>, FLAVORS |-> <<>>,
                  issued |-> {}, name |-> 0, flavor |-> 0, known |-> FALSE ]

\* new_tile(name = name, flavor = flavor); issued collects every
\* (table, id, text) returned so far, known tells that the name was there.
new_tile(name, flavor) ==
    /\ tables.pc = "loaded"
    /\ LET n == register(tables.NAMES, name)
           f == register(tables.FLAVORS, flavor)
       IN  tables' = [ tables EXCEPT
                         !.NAMES = n.table,
                         !.FLAVORS = f.table,
                         !.issued = @ \cup { <<"name", n.id, name>>,
                                             <<"flavor", f.id, flavor>> },
                         !.name = n.id,
                         !.flavor = f.id,
                         !.known = n.table = tables.NAMES ]
    /\ UNCHANGED except_tables

NextTiles == \E name \in 1 .. MaxTexts, flavor \in 1 .. MaxTexts :
                 new_tile(name, flavor)

SpecTiles == InitTiles /\ [][NextTiles]_vars

\* --------------------------------------------------- the hand-offs
\* npc2 with any stack of strategies a turn can find installed: the routine
\* alone; a relief just begun, on the way (beside npc1, which its Talk then
\* finds); a relief on the closet tile with 2, 1 or nothing of its duration
\* left (last_peed is set when nothing is left); and the struggle over the
\* routine or over the relief just begun.  The BeingEaten status is on or
\* off, and the need timer is at the threshold or over it.
HandOffTile == <<1, 0>>

InitHandOff ==
    /\ turn_count \in {NeedThreshold, NeedThreshold + 1}
    /\ \E kept \in {-1, 0, 1, 2, PeeDuration}, struggle \in BOOLEAN :
          /\ kept # -1 => turn_count > NeedThreshold
          /\ struggle => kept \in {-1, PeeDuration}
          /\ pos = [e \in Entities |->
                      CASE e = PLAYER -> upstairs_location(1)
                        [] e = "npc1" -> <<2 * HandOffTile[1],
                                           2 * HandOffTile[2]>>
                        [] e = "npc2" -> IF kept \in {0, 1, 2}
                                         THEN ClosetTile ELSE HandOffTile
                        [] OTHER -> <<MapWidth - 1, 1>>]
          /\ last_peed = [n \in NPCs |->
                            IF n = "npc2" /\ kept # 0 THEN 0 ELSE turn_count]
          /\ ai = [n \in NPCs |->
                     IF n = "npc1" THEN << Strategy("DefaultNPC", NoTile) >>
                     ELSE (IF struggle
                           THEN << Strategy("BeingEatenNPC", NoTile) >>
                           ELSE <<>>)
                          \o (IF kept # -1
                              THEN << [Strategy("PeeNPC", ClosetTile) EXCEPT
                                         !.pee_duration = kept] >>
                              ELSE <<>>)
                          \o << Strategy("DefaultNPC", NoTile) >>]
    /\ being_eaten \in { {}, {"npc2"} }
    /\ parent = [i \in Items |-> GAMEMAP]
    /\ inventory = [a \in Actors |-> <<>>]
    /\ hp = [a \in Actors |-> MaxHP]
    /\ cause_of_death = ""
    /\ floor_number = 1
    /\ new_messages = <<>>
    /\ new_history = <<>>
    /\ generated = 0
    /\ path_call = NoCall
    /\ phase = "idle"
    /\ queue = <<>>
    /\ acted = <<>>
    /\ turn_log = NoTurn
    /\ ret = "none"
    /\ crashed = FALSE
    /\ visible = {}
    /\ explored = {}
    /\ game_mode = "normal"
    /\ decision = NoDecision
    /\ lingering = [n \in NPCs |-> 0]
    /\ GenIdle
    /\ last = NoOutcome
    /\ steps = 0

SpecHandOff == InitHandOff /\ [][NextPee]_vars

\* ------------------------------------------- handle_enemy_turns, alone
\* The enemies of the phase are some of 1 .. MaxEnemies; 0 is the player.
MaxEnemies == 3

\* handle_enemy_turns is entered, the player alive (handle_action tests
\* it): enemies is sorted by id, and ai holds those whose ai is set.  trace
\* lists the ai.perform() and on_turn() calls made, fatal is its length
\* when the player was found dead.
InitTurns ==
    /\ pos = [e \in Entities |-> SpawnXY(e)]
    /\ InitRest
    /\ InitEngine
    /\ GenOff
    /\ maze = NoMaze
    /\ chunked = NoChunk
    /\ spawn = NoSpawn
    /\ tables = NoTables
    /\ ship = NoShip
    /\ last = NoOutcome
    /\ steps = 0
    /\ \E n \in 0 .. MaxEnemies :
          \E sorted \in [1 .. n -> 1 .. MaxEnemies] :
             /\ \A j, k \in 1 .. n : j < k => sorted[j] < sorted[k]
             /\ \E with_ai \in SUBSET { sorted[k] : k \in 1 .. n } :
                   turns = [ pc |-> "turns", enemies |-> sorted,
                             ai |-> with_ai, i |-> 1, alive |-> TRUE,
                             trace |-> <<>>, fatal |-> 0, turn_count |-> 0 ]

\* Mutant: the loop goes on when the player is dead.
enemy_turn_NoCheck ==
    /\ turns.pc = "turns"
    /\ turns.i <= Len(turns.enemies)
    /\ LET entity == turns.enemies[turns.i]
       IN  IF entity \notin turns.ai
           THEN turns' = [turns EXCEPT !.i = @ + 1]
           ELSE \E raised \in BOOLEAN, killed \in BOOLEAN,
                   slain \in {0} \cup turns.ai :
                   turns' = [ turns EXCEPT
                                !.trace = Append(@, <<"perform", entity,
                                                     raised>>),
                                !.ai = @ \ {slain},
                                !.alive = @ /\ ~killed,
                                !.fatal = IF killed /\ @ = 0
                                          THEN Len(turns.trace) + 1 ELSE @,
                                !.i = @ + 1 ]
    /\ UNCHANGED except_turns

\* One round of the first loop.  What entity.ai.perform() does is not the
\* handler's: it returns or raises Impossible (caught), it has left the
\* player dead or not, and it has left an enemy (slain) without its ai, or
\* none (0).
enemy_turn ==
    /\ turns.pc = "turns"
    /\ turns.i <= Len(turns.enemies)
    /\ LET entity == turns.enemies[turns.i]
       IN  IF entity \notin turns.ai
           THEN turns' = [turns EXCEPT !.i = @ + 1]
           ELSE \E raised \in BOOLEAN, killed \in BOOLEAN,
                   slain \in {0} \cup turns.ai :
                   turns' = [ turns EXCEPT
                                !.trace = Append(@, <<"perform", entity,
                                                     raised>>),
                                !.ai = @ \ {slain},
                                !.alive = ~killed,
                                !.fatal = IF killed THEN Len(turns.trace) + 1
                                          ELSE @,
                                !.pc = IF killed THEN "returned" ELSE @,
                                !.i = IF killed THEN @ ELSE @ + 1 ]
    /\ UNCHANGED except_turns

\* The post-turns of the enemies, the player's, and turn_count += 1.
post_turns ==
    /\ turns.pc = "turns"
    /\ turns.i > Len(turns.enemies)
    /\ LET hooked == SelectSeq(turns.enemies, LAMBDA e : e \in turns.ai)
       IN  turns' = [ turns EXCEPT
                        !.trace = @ \o [k \in 1 .. Len(hooked) |->
                                          <<"on_turn", hooked[k], FALSE>>]
                                    \o << <<"on_turn", 0, FALSE>> >>,
                        !.turn_count = @ + 1,
                        !.pc = "done" ]
    /\ UNCHANGED except_turns

NextTurns == enemy_turn \/ post_turns

SpecTurns == InitTurns /\ [][NextTurns]_vars

\* ---------------------------------------------------------- shuttle gate
\* The number of assignments to the two flags that are followed.
MaxSets == 4

\* Mutant: an unlocked gate is opened whatever the bioscanner does.
gate_unlocked_setter_Open(s, new_val) ==
    [ s EXCEPT !.gate_unlocked = new_val,
               !.gate = IF new_val THEN "floor" ELSE @ ]

\* The setter of Engine.gate_unlocked.
gate_unlocked_setter(s, new_val) ==
    [ s EXCEPT !.gate_unlocked = new_val,
               !.gate = IF new_val
                        THEN IF ~s.bioscanner_dismantled THEN "gate"
                             ELSE "floor"
                        ELSE @ ]

\* The setter of Engine.bioscanner_dismantled.
bioscanner_dismantled_setter(s, new_val) ==
    [ s EXCEPT !.bioscanner_dismantled = new_val,
               !.bioscanner = IF new_val THEN "dismantled_bioscanner" ELSE @,
               !.gate = IF new_val /\ s.gate_unlocked THEN "floor" ELSE @ ]

\* Engine.__init__ leaves both flags False; the ship is built with the
\* locked gate and the working bioscanner.  calls lists the assignments.
InitShip ==
    /\ pos = [e \in Entities |-> SpawnXY(e)]
    /\ InitRest
    /\ InitEngine
    /\ GenOff
    /\ turns = NoTurns
    /\ maze = NoMaze
    /\ chunked = NoChunk
    /\ spawn = NoSpawn
    /\ tables = NoTables
    /\ last = NoOutcome
    /\ steps = 0
    /\ ship = [ pc |-> "built", gate_unlocked |-> FALSE,
                bioscanner_dismantled |-> FALSE, gate |-> "locked_gate",
                bioscanner |-> "bioscanner", calls |-> <<>> ]

\* engine.gate_unlocked = new_val, or engine.bioscanner_dismantled = new_val.
SetFlag(flag, new_val) ==
    /\ ship.pc = "built"
    /\ Len(ship.calls) < MaxSets
    /\ LET s == IF flag = "gate_unlocked"
                THEN gate_unlocked_setter(ship, new_val)
                ELSE bioscanner_dismantled_setter(ship, new_val)
       IN  ship' = [ s EXCEPT !.calls = Append(@, <<flag, new_val>>) ]
    /\ UNCHANGED except_ship

NextShip ==
    \E flag \in {"gate_unlocked", "bioscanner_dismantled"},
       new_val \in BOOLEAN : SetFlag(flag, new_val)

SpecShip == InitShip /\ [][NextShip]_vars

\* ------------------------------------------------------------------ Maze
MazeWidth == 3
MazeHeight == 2

Grid(w, h) == (0 .. w - 1) \X (0 .. h - 1)

\* MazeCell.__init__
MazeCell == [L |-> FALSE, R |-> FALSE, U |-> FALSE, D |-> FALSE,
             visited |-> FALSE]

\* MazeCell.neighbors, on the grid of m.
neighbors(m, c) ==
    { n \in Grid(m.width, m.height) :
        \E d \in { <<0, 1>>, <<0, -1>>, <<1, 0>>, <<-1, 0>> } :
            n = << c[1] + d[1], c[2] + d[2] >> }

unvisited_neighbors(m, c) == { n \in neighbors(m, c) : ~m.cells[n].visited }

visited_neighbors(m, c) == { n \in neighbors(m, c) : m.cells[n].visited }

unvisited_cells(m) == { c \in Grid(m.width, m.height) : ~m.cells[c].visited }

\* MazeCell.step_to: the cells after c has stepped to other.
step_to(cells, c, other) ==
    LET x == c[1] - other[1]
        y == c[2] - other[2]
    IN  [cells EXCEPT
           ![c] = [@ EXCEPT !.R = @ \/ x < 0, !.L = @ \/ x > 0,
                            !.D = @ \/ y < 0, !.U = @ \/ y > 0],
           ![other] = [@ EXCEPT !.L = @ \/ x < 0, !.R = @ \/ x > 0,
                                !.U = @ \/ y < 0, !.D = @ \/ y > 0,
                                !.visited = TRUE]]

\* Maze.last_good_cell: the latest cell of the path with an unvisited
\* neighbour, else path[0]; NoTile stands for the IndexError of path[0] on
\* an empty path.
last_good_cell(m) ==
    LET good == { i \in 1 .. Len(m.path) :
                    unvisited_neighbors(m, m.path[i]) # {} }
    IN  IF good # {}
        THEN m.path[CHOOSE i \in good : \A j \in good : j <= i]
        ELSE IF Len(m.path) > 0 THEN m.path[1] ELSE NoTile

\* Maze.__init__ up to its loop, for every size and start cell.
InitMaze ==
    /\ pos = [e \in Entities |-> SpawnXY(e)]
    /\ InitRest
    /\ InitEngine
    /\ GenOff
    /\ turns = NoTurns
    /\ ship = NoShip
    /\ tables = NoTables
    /\ spawn = NoSpawn
    /\ chunked = NoChunk
    /\ last = NoOutcome
    /\ steps = 0
    /\ \E w \in 1 .. MazeWidth, h \in 1 .. MazeHeight :
          \E s \in Grid(w, h) :
             maze = [ pc |-> "carving", width |-> w, height |-> h,
                      cells |-> [c \in Grid(w, h) |->
                                   [MazeCell EXCEPT !.visited = (c = s)]],
                      start |-> s, last_cell |-> s, path |-> <<>> ]

\* One round of the loop of Maze.__init__.
Carve ==
    /\ maze.pc = "carving"
    /\ unvisited_cells(maze) # {}
    /\ LET start == IF unvisited_neighbors(maze, maze.last_cell) = {}
                    THEN last_good_cell(maze) ELSE maze.last_cell
       IN  IF start = NoTile
           THEN maze' = [maze EXCEPT !.pc = "IndexError"]
           ELSE IF /\ start = maze.start
                   /\ \/ maze.cells[start].L \/ maze.cells[start].R
                      \/ maze.cells[start].U \/ maze.cells[start].D
           THEN maze' = [maze EXCEPT !.pc = "done"]
           ELSE IF unvisited_neighbors(maze, start) = {}
           THEN maze' = [maze EXCEPT !.pc = "IndexError"]
           ELSE \E step \in unvisited_neighbors(maze, start),
                   branch \in BOOLEAN :
                  LET stepped == [maze EXCEPT
                                    !.cells = step_to(@, start, step),
                                    !.last_cell = step,
                                    !.path = Append(@, step)]
                      back == visited_neighbors(stepped, step)
                  IN  IF branch /\ Cardinality(back) > 1
                      THEN \E v \in back :
                             maze' = [stepped EXCEPT
                                        !.cells = step_to(@, step, v)]
                      ELSE maze' = stepped
    /\ UNCHANGED except_maze

\* The loop ends with no cell unvisited.
EndCarve ==
    /\ maze.pc = "carving"
    /\ unvisited_cells(maze) = {}
    /\ maze' = [maze EXCEPT !.pc = "done"]
    /\ UNCHANGED except_maze

NextMaze == Carve \/ EndCarve

SpecMaze == InitMaze /\ [][NextMaze]_vars

\* The rows a chunk is made of.
RowWall == << "x", "x", "x", "x", "x" >>

RowOpen == << ".", ".", ".", ".", "." >>

RowEdge == << ".", ".", ".", ".", "x" >>

\* MazeCell.chunk: the 5x5 pattern for the flags of cell, "None" when the
\* function falls off its end.
chunk(cell) ==
    LET dirs == << cell.L, cell.R, cell.U, cell.D >>
    IN  IF dirs \in { <<TRUE, TRUE, FALSE, FALSE>>, <<FALSE, TRUE, FALSE, TRUE>>,
                      <<TRUE, TRUE, FALSE, TRUE>>, <<FALSE, TRUE, FALSE, FALSE>> }
        THEN << RowWall, RowOpen, RowOpen, RowOpen, RowOpen >>
        ELSE IF dirs \in { <<TRUE, FALSE, FALSE, TRUE>>,
                           <<TRUE, FALSE, FALSE, FALSE>>,
                           <<FALSE, FALSE, FALSE, TRUE>> }
        THEN << RowWall, RowEdge, RowEdge, RowEdge, RowEdge >>
        ELSE IF dirs \in { <<FALSE, TRUE, TRUE, FALSE>>, <<TRUE, TRUE, TRUE, FALSE>>,
                           <<FALSE, TRUE, TRUE, TRUE>>, <<TRUE, TRUE, TRUE, TRUE>> }
        THEN << RowEdge, RowOpen, RowOpen, RowOpen, RowOpen >>
        ELSE IF dirs \in { <<TRUE, FALSE, TRUE, FALSE>>, <<FALSE, FALSE, TRUE, TRUE>>,
                           <<TRUE, FALSE, TRUE, TRUE>>, <<FALSE, FALSE, TRUE, FALSE>> }
        THEN << RowEdge, RowEdge, RowEdge, RowEdge, RowEdge >>
        ELSE "None"

\* A cell of a maze, with any flags, about to be solidified.
InitChunk ==
    /\ pos = [e \in Entities |-> SpawnXY(e)]
    /\ InitRest
    /\ InitEngine
    /\ GenOff
    /\ turns = NoTurns
    /\ ship = NoShip
    /\ tables = NoTables
    /\ spawn = NoSpawn
    /\ last = NoOutcome
    /\ steps = 0
    /\ maze = NoMaze
    /\ \E c \in Grid(MazeWidth, MazeHeight), x_offset \in {1, 2},
          l \in BOOLEAN, r \in BOOLEAN, u \in BOOLEAN, d \in BOOLEAN :
          chunked = [ pc |-> "cell", x |-> c[1], y |-> c[2],
                      x_offset |-> x_offset, y_offset |-> 0,
                      cell |-> [MazeCell EXCEPT !.L = l, !.R = r, !.U = u,
                                                !.D = d, !.visited = TRUE],
                      tiles |-> <<>> ]

\* MazeCell.solidify: enumerate(None) is a TypeError.
solidify ==
    /\ chunked.pc = "cell"
    /\ LET rows == chunk(chunked.cell)
       IN  IF rows = "None"
           THEN chunked' = [chunked EXCEPT !.pc = "TypeError"]
           ELSE chunked' =
                  [chunked EXCEPT
                     !.pc = "solid",
                     !.tiles =
                        [t \in { << chunked.x * 5 + x + chunked.x_offset,
                                    chunked.y * 5 + y + chunked.y_offset >> :
                                    x \in 0 .. 4, y \in 0 .. 4 } |->
                           IF rows[t[2] - chunked.y * 5 - chunked.y_offset + 1]
                                  [t[1] - chunked.x * 5 - chunked.x_offset + 1]
                              = "x"
                           THEN "wall" ELSE "floor"]]
    /\ UNCHANGED except_chunked

NextChunk == solidify

SpecChunk == InitChunk /\ [][NextChunk]_vars

\* ------------------------------------------------ properties: the actions
\* The step just taken was perform() of action a.
Performed(a) == steps' = steps + 1 /\ last'.a = a

\* A cell an actor may enter, spelled out on the state: inside the map, on a
\* tile that can be walked on, with no living actor standing on it.
CanEnter(c) ==
    /\ c[1] \in 0 .. MapWidth - 1
    /\ c[2] \in 0 .. MapHeight - 1
    /\ Tiles(floor_number, c) \in {"floor", "down_stairs", "door", "gate"}
    /\ \A o \in Actors : ~(hp[o] > 0 /\ pos[o] = c)

\* The living actors standing on a cell.
Blockers(c) == { o \in Actors : hp[o] > 0 /\ pos[o] = c }

\* C5: a MovementAction of any actor raises Impossible and moves nothing when
\* its destination cannot be entered at the time it runs; otherwise the actor
\* ends exactly on the destination and every other entity stays where it was.
C5_Movement ==
    [][ \A e \in Actors, d \in DIRECTIONS :
          Performed(Action("Movement", e, d[1], d[2])) =>
            LET dest == << pos[e][1] + d[1], pos[e][2] + d[2] >>
            IN  IF CanEnter(dest)
                THEN /\ last'.res = "ok"
                     /\ pos'[e] = dest
                     /\ \A o \in Entities \ {e} : pos'[o] = pos[o]
                ELSE /\ last'.res = "Impossible"
                     /\ pos' = pos ]_vars

\* A non-player actor has moved, and then a MovementAction was refused.
C5_Witness ==
    /\ last.a.cls = "Movement"
    /\ last.a.entity \in NPCs
    /\ last.res = "Impossible"
    /\ \E n \in NPCs : pos[n] # SpawnXY(n)

\* C6: a BumpAction looks at its destination when it runs.  With a blocking
\* entity there it resolves to the talk interaction with that entity, sets
\* meleed and leaves every position alone; with none it does what a
\* MovementAction with the same (dx, dy) does and meleed stays false.
C6_Bump ==
    [][ \A e \in Actors, d \in DIRECTIONS :
          Performed(Action("Bump", e, d[1], d[2])) =>
            LET dest == << pos[e][1] + d[1], pos[e][2] + d[2] >>
                mv == MovementAction_perform(
                          Fresh(World), Action("Movement", e, d[1], d[2]), FALSE)
            IN  IF Blockers(dest) # {}
                THEN /\ last'.meleed
                     /\ last'.res = "ok"
                     /\ pos' = pos
                     /\ \E o \in Blockers(dest) :
                          new_messages' = << "?: Hello there, " \o Name(o) \o "!" >>
                ELSE /\ ~last'.meleed
                     /\ last'.res = mv.res
                     /\ pos' = mv.w.pos
                     /\ new_messages' = mv.w.new_messages ]_vars

\* An actor bumped into a cell that another actor had just walked onto.
C6_Witness ==
    /\ last.a.cls = "Bump"
    /\ last.meleed
    /\ steps = 2
    /\ LET dest == << pos[last.a.entity][1] + last.a.dx,
                      pos[last.a.entity][2] + last.a.dy >>
       IN  \E o \in Actors : pos[o] = dest /\ pos[o] # SpawnXY(o)
                             /\ o # PLAYER


\* The parts of the world that are not the output of the running handler.
Board ==
    << pos, parent, inventory, hp, cause_of_death, floor_number, turn_count >>

\* C7: a MeleeAction with no blocking entity at its destination fails with
\* Impossible("Nothing to attack.") and changes nothing; with one it takes
\* exactly 1 hit point from that entity and from no other, and it writes the
\* attacker's name as cause_of_death exactly when that entity is the player
\* and the player is dead after the damage.
C7_Melee ==
    [][ \A e \in Actors, d \in DIRECTIONS :
          Performed(Action("Melee", e, d[1], d[2])) =>
            LET dest == << pos[e][1] + d[1], pos[e][2] + d[2] >>
            IN  IF Blockers(dest) = {}
                THEN /\ last'.res = "Impossible"
                     /\ last'.reason = "Nothing to attack."
                     /\ Board' = Board
                     /\ new_messages' = <<>>
                     /\ new_history' = <<>>
                ELSE \E t \in Blockers(dest) :
                       /\ last'.res = "ok"
                       /\ hp'[t] = hp[t] - 1
                       /\ \A o \in Actors \ {t} : hp'[o] = hp[o]
                       /\ cause_of_death' =
                            IF t = PLAYER /\ hp'[PLAYER] = 0
                            THEN Name(e) ELSE cause_of_death ]_vars

\* The player survived one attack unnamed, and the second one killed.
C7_Witness ==
    /\ last.a.cls = "Melee"
    /\ last.res = "ok"
    /\ hp[PLAYER] = 0
    /\ cause_of_death = last.a.entity
    /\ MaxHP > 1

\* The number of places a sequence holds x at.
Count(seq, x) == Cardinality({ k \in DOMAIN seq : seq[k] = x })

\* C8: a default PickupAction moves every item that lies on the actor's cell
\* and is not in the actor's inventory into that inventory, once, and makes
\* the inventory its owner instead of the floor; it appends one
\* ("pickup item", name, turn_count) history entry per item moved, and it
\* leaves the items of other cells, and every position, untouched.
C8_Pickup ==
    [][ \A e \in Actors :
          Performed(Action("Pickup", e, 0, 0)) =>
            LET here == { i \in Items : pos[i] = pos[e]
                                        /\ Count(inventory[e], i) = 0 }
            IN  /\ last'.res = "ok"
                /\ \A i \in here : /\ Count(inventory'[e], i) = 1
                                   /\ parent'[i] = e
                /\ \A i \in Items \ here :
                       /\ Count(inventory'[e], i) = Count(inventory[e], i)
                       /\ parent'[i] = parent[i]
                /\ Len(inventory'[e]) = Len(inventory[e]) + Cardinality(here)
                /\ \A o \in Actors \ {e} : inventory'[o] = inventory[o]
                /\ pos' = pos
                /\ Len(new_history') = Cardinality(here)
                /\ \A k \in DOMAIN new_history' :
                       new_history'[k] = [kind |-> "pickup item",
                                          subject |-> "rock",
                                          turn |-> turn_count] ]_vars

\* An actor standing on the two rocks picked both up off the floor.
C8_Witness ==
    /\ last.a.cls = "Pickup"
    /\ \E e \in Actors :
         /\ last.a.entity = e
         /\ Range(inventory[e]) = Items
         /\ Len(inventory[e]) = 2
         /\ \A i \in Items : parent[i] = e /\ pos[i] = pos[e]
    /\ Len(new_history) = 2


\* ------------------------------------------------ properties: the driver
\* C2: when the player's action raises Impossible, handle_action appends the
\* reason to the message log and returns False; no enemy takes a turn, the
\* turn count and every position (the whole board) stay as they were.
\* handle_action(None) returns False and changes nothing either.
C2_NoTurnConsumed ==
    [][ /\ (phase = "idle" /\ last'.res = "Impossible") =>
              /\ new_messages' = << last'.reason >>
              /\ last'.reason # ""
              /\ ret' = "False"
              /\ turn_count' = turn_count
              /\ pos' = pos
              /\ Board' = Board
              /\ phase' = "idle" /\ queue' = <<>> /\ acted' = <<>>
        /\ (phase = "idle" /\ last' = NoOutcome) =>
              /\ ret' = "False"
              /\ Board' = Board
              /\ new_messages' = <<>>
              /\ phase' = "idle" /\ queue' = <<>> /\ acted' = <<>> ]_vars

\* The player walked into something and was told why.
C2_Witness ==
    /\ last.a.cls = "Bump"
    /\ last.res = "Impossible"
    /\ new_messages = << "That way is blocked." >>
    /\ ret = "False"
    /\ turn_count = 0

\* The actors of the running enemy phase: those that have performed, then
\* those still waiting.
PhaseOrder == [k \in DOMAIN acted |-> acted[k].entity] \o queue

C4_TakeStairs ==
    [][ (phase = "idle" /\ last'.a.cls = "TakeStairs") =>
          IF pos[PLAYER] = downstairs_location(floor_number)
          THEN /\ last'.res = "ok"
               /\ generated' = 1
               /\ floor_number' = floor_number + 1
               /\ new_history' = << [kind |-> "descend stairs",
                                     subject |-> floor_number + 1,
                                     turn |-> turn_count] >>
          ELSE /\ last'.res = "Impossible"
               /\ last'.reason = "There are no stairs here."
               /\ generated' = 0
               /\ floor_number' = floor_number
               /\ new_history' = <<>>
               /\ turn_count' = turn_count
               /\ ret' = "False"
               /\ phase' = "idle" ]_vars

\* The player went down the stairs: one floor generated, one entry.
C4_Witness ==
    /\ last.a.cls = "TakeStairs"
    /\ last.res = "ok"
    /\ generated = 1
    /\ floor_number = 2
    /\ Len(new_history) = 1


\* --------------------------------------- properties: intents, sight, paths
\* The place in the plan of the first action, from the k-th on, that raises
\* or that has its meleed flag set once performed; Len(plan) if none does.
RECURSIVE StopAt(_, _, _)
StopAt(w, plan, k) ==
    IF k >= Len(plan) THEN Len(plan)
    ELSE LET r == perform(w, plan[k])
         IN  IF r.res # "ok" \/ r.meleed THEN k
             ELSE StopAt(r.w, plan, k + 1)

\* The world after the first n actions of the plan, each performed once.
RECURSIVE Replay(_, _, _, _)
Replay(w, plan, k, n) ==
    IF k > n THEN w ELSE Replay(perform(w, plan[k]).w, plan, k + 1, n)

\* C1: BaseAI.perform performs the actions of the decided intent in order,
\* each once, up to and including the first one that raises Impossible or
\* whose meleed flag is set once it is performed; none of the later actions
\* of the intent is performed in that turn.
C1_IntentOrder ==
    [][ turn_log' # turn_log =>
          LET plan == turn_log'.intent
              done == turn_log'.performed
              n == StopAt(Fresh(World), plan, 1)
          IN  /\ Len(done) = n
              /\ \A k \in 1 .. n : done[k].a = plan[k]
              /\ \A k \in 1 .. n - 1 : done[k].res = "ok" /\ ~done[k].meleed
              /\ n < Len(plan) => \/ done[n].res # "ok"
                                  \/ done[n].meleed
              /\ World' = Replay(Fresh(World), plan, 1, n) ]_vars

\* An actor bumped into somebody before the end of its intent, and the rest
\* of the intent was left.
C1_Witness ==
    /\ Len(turn_log.intent) = MaxIntent
    /\ Len(turn_log.performed) < MaxIntent
    /\ turn_log.performed[Len(turn_log.performed)].meleed

\* C9: update_fov never takes a cell out of the explored plane of a floor,
\* whatever mask was computed and whatever the game mode is.
C9_ExploredMonotonic == [][ explored \subseteq explored' ]_vars

\* A cell seen earlier is out of sight now and still explored.
C9_Witness ==
    /\ steps = MaxSteps
    /\ visible # {}
    /\ explored \ visible # {}

\* C10: in the cost array of get_path_to a cell of the mask that holds
\* blocking entities costs its unblocked cost plus the penalty (10) for
\* each of them, unless it is the destination, which costs its unblocked
\* cost; a cell of unblocked cost 0 costs 0 whoever stands on it.
C10_CostGrid ==
    path_call # NoCall =>
      \A c \in Cells :
        LET unblocked == IF path_call.walkable
                            /\ Tiles(floor_number, c) \in
                                 {"wall", "fence", "locked_gate", "bioscanner"}
                         THEN 0 ELSE 1
        IN  path_call.cost[c] =
              IF unblocked = 0 THEN 0
              ELSE IF c = path_call.dest THEN unblocked
              ELSE unblocked + 10 * Cardinality(Blockers(c))

\* One actor on the way costs 11, one on the destination 1, one on a fence 0.
C10_Witness ==
    /\ path_call # NoCall
    /\ path_call.walkable
    /\ \E c \in Cells : /\ Cardinality(Blockers(c)) = 1
                        /\ c # path_call.dest
                        /\ path_call.cost[c] = 11
    /\ Blockers(path_call.dest) # {}
    /\ path_call.cost[path_call.dest] = 1
    /\ \E c \in Cells : Blockers(c) # {} /\ path_call.cost[c] = 0

\* ------------------------------------------------------------------ C11
\* The destination a hostile actor resolves in the state it decides in:
\* the player when it sees it, else the place it last saw it at.
Sees(e) == pos[PLAYER] \in compute_fov(floor_number, pos[e], FovRadius)

Destination(e) == IF Sees(e) THEN pos[PLAYER] ELSE Head(ai[e]).last_target

Decided(e) == decision'.entity = e

\* C11: whenever a hostile actor decides with its resolved destination (the
\* visible target, else the last-known coordinate) at Chebyshev distance 1,
\* its intent is exactly one Bump whose (dx, dy) points at that destination,
\* whatever its move_speed: never a Wait, never several steps.
C11_AdjacentBump ==
    [][ \A e \in NPCs :
          (/\ Decided(e)
           /\ Destination(e) # NoTile
           /\ Chebyshev(pos[e], Destination(e)) = 1)
          => decision'.intent =
               << Action("Bump", e, Destination(e)[1] - pos[e][1],
                         Destination(e)[2] - pos[e][2]) >> ]_vars

\* The actor of move_speed 2 decided next to a coordinate it remembers while
\* the player is out of its sight.
C11_Witness ==
    /\ decision.entity = "npc1"
    /\ ~Sees("npc1")
    /\ Head(ai["npc1"]).last_target # NoTile
    /\ Chebyshev(pos["npc1"], Head(ai["npc1"]).last_target) = 1
    /\ Len(decision.intent) = 1
    /\ decision.intent[1].cls = "Bump"

\* ------------------------------------------------------------------ C12
\* Scenario A: the actor of move_speed 1 at (5,5) has not been alerted, the
\* player is in its view at (5,8) and the cells between them are free.
ScenarioA ==
    /\ pos["npc2"] = <<5, 5>>
    /\ Head(ai["npc2"]).last_target = NoTile
    /\ pos[PLAYER] = <<5, 8>>
    /\ Sees("npc2")
    /\ tile_is_walkable(World, <<5, 6>>)
    /\ tile_is_walkable(World, <<5, 7>>)

Turned(e) == turn_log'.entity = e

\* C12: in scenario A the intent of the actor's first turn is exactly
\* [Bump(0,+1)] and after the turn (perform) the actor stands at (5,6).
C12_ScenarioA ==
    [][ (ScenarioA /\ Turned("npc2"))
        => /\ turn_log'.intent = << Action("Bump", "npc2", 0, 1) >>
           /\ pos'["npc2"] = <<5, 6>> ]_vars

\* decide() alone, called in scenario A, does give [Bump(0,+1)].
C12_Witness ==
    /\ decision.entity = "npc2"
    /\ pos["npc2"] = <<5, 5>>
    /\ pos[PLAYER] = <<5, 8>>
    /\ new_messages = << "The ? spotted you!" >>
    /\ decision.intent = << Action("Bump", "npc2", 0, 1) >>

\* ------------------------------------------------------------------ C13
\* The classes of an actor's stack of strategies, the active one first.
Kinds(stack) == [i \in 1 .. Len(stack) |-> stack[i].kind]

TookTurn(e) == steps' = steps + 1 /\ turn_log'.entity = e

NeedsToPee(e) == turn_count - last_peed[e] > NeedThreshold

\* C13: in every decision cycle of an NPC that has the being-eaten status,
\* override resolution selects the BeingEaten sub-strategy, with the strategy
\* that was active as its parent, and it is BeingEaten that decides: this
\* whatever the need timer says, over its threshold included.
C13_BeingEatenFirst ==
    [][ \A e \in NPCs :
          (TookTurn(e) /\ e \in being_eaten)
          => /\ Kinds(ai'[e]) =
                  IF Head(ai[e]).kind = "BeingEatenNPC" THEN Kinds(ai[e])
                  ELSE <<"BeingEatenNPC">> \o Kinds(ai[e])
             /\ turn_log'.intent =
                  << Action("Talk", e, pos[e][1], pos[e][2]),
                     Action("Wait", e, 0, 0) >> ]_vars

\* A DefaultNPC whose need timer is over the threshold took its turn while
\* being eaten, and BeingEaten was put on top of it.
C13_Witness ==
    /\ turn_log.entity = "npc2"
    /\ "npc2" \in being_eaten
    /\ NeedsToPee("npc2")
    /\ Kinds(ai["npc2"]) = <<"BeingEatenNPC", "DefaultNPC">>

\* ------------------------------------------------------------------ C14
\* C14: the stack of strategies of a routine-following NPC is at most two
\* levels deep: the base strategy alone, or one override whose parent is the
\* base strategy; no override has another override as its parent.
C14_TwoLevels ==
    \A e \in NPCs :
      Kinds(ai[e]) \in { <<"DefaultNPC">>,
                         <<"BeingEatenNPC", "DefaultNPC">>,
                         <<"PeeNPC", "DefaultNPC">> }

\* C14, as the code has it: the stack is at most three levels deep.  The
\* base strategy is always at the bottom, the need-driven strategy sits
\* directly on the base, and BeingEaten sits on either of them, nothing on it.
C14_ThreeLevels ==
    \A e \in NPCs :
      Kinds(ai[e]) \in { <<"DefaultNPC">>,
                         <<"BeingEatenNPC", "DefaultNPC">>,
                         <<"PeeNPC", "DefaultNPC">>,
                         <<"BeingEatenNPC", "PeeNPC", "DefaultNPC">> }

\* An NPC on its way to the closet was caught: BeingEaten has the
\* need-driven strategy as its parent.
C14_Witness ==
    \E e \in NPCs :
      /\ Kinds(ai[e]) = <<"BeingEatenNPC", "PeeNPC", "DefaultNPC">>
      /\ turn_log.entity = e
      /\ e \in being_eaten

\* ------------------------------------------------------------------ C15
\* The intent of mosey's chat branch: one Bump at an actor next to e.
IsChat(e, plan) ==
    /\ Len(plan) = 1
    /\ plan[1].cls = "Bump"
    /\ \E a \in get_adjacent_actors(World, e) :
         /\ plan[1].dx = pos[a][1] - pos[e][1]
         /\ plan[1].dy = pos[a][2] - pos[e][2]

\* C15: a DefaultNPC standing on its target_tile has target_tile unset after
\* at most two decision cycles in a row (that one or the next), whatever the
\* random rolls and whoever stands next to it.
C15_TwoCycles == \A e \in NPCs : lingering[e] < 2

\* C15, as the code has it: a decision cycle of DefaultNPC begun on its
\* target_tile unsets target_tile unless the cycle takes the chat branch,
\* whose intent is a single Bump at an adjacent actor; with nobody next to
\* the NPC the very first cycle unsets it.
C15_UnsetUnlessChat ==
    [][ \A e \in NPCs :
          (/\ TookTurn(e)
           /\ Head(ai'[e]).kind = "DefaultNPC"
           /\ pos[e] = Base(ai[e]).target_tile)
          => \/ Head(ai'[e]).target_tile = NoTile
             \/ IsChat(e, turn_log'.intent) ]_vars

\* An NPC on its target_tile chatted with its neighbour and kept the
\* target_tile.
C15_Witness ==
    \E e \in NPCs :
      /\ turn_log.entity = e
      /\ lingering[e] = 1
      /\ pos[e] = Head(ai[e]).target_tile
      /\ Len(turn_log.performed) = 1
      /\ turn_log.performed[1].meleed

\* ------------------------------------------------------------------ C16
Corners(r) ==
    { <<r.x1, r.y1>>, <<r.x1, r.y2>>, <<r.x2, r.y1>>, <<r.x2, r.y2>> }

LayoutOf(rs) ==
    UNION { Carved(rs[i], i = 1) : i \in 1 .. Len(rs) }
    \cup (IF Len(rs) = 0 THEN {} ELSE { center(rs[Len(rs)]) })

\* C17: when generate_dungeon_map has returned, the layout it returned
\* consists of exactly room_target accepted valid rooms, also when the cap
\* on the attempts was reached on the way and the layout was begun again.
C17_ReturnedLayout ==
    gen = "returned" =>
        /\ Len(rooms) = room_target
        /\ \A i \in 1 .. Len(rooms) : valid(rooms[i])
        /\ dungeon = LayoutOf(rooms)

\* The function returned after it had begun the layout again.
C17_Witness == gen = "returned" /\ depth > 0

\* ------------------------------------------------------------------ C18
OnMap(c) ==
    /\ 0 <= c[1] /\ c[1] < FloorWidth(floor_number)
    /\ 0 <= c[2] /\ c[2] < FloorHeight(floor_number)

\* C18: after any sequence of actions of the player and of the other
\* actors every actor stands on a cell of the map, and a MovementAction or
\* BumpAction whose destination is outside the map is refused as blocked
\* and moves nobody.
C18_InBounds ==
    /\ [](\A e \in Actors : OnMap(pos[e]))
    /\ [][ \A e \in Actors, d \in DIRECTIONS, c \in {"Movement", "Bump"} :
             ( /\ Performed(Action(c, e, d[1], d[2]))
               /\ ~OnMap(<< pos[e][1] + d[1], pos[e][2] + d[2] >>) ) =>
                 /\ last'.res = "Impossible"
                 /\ last'.reason = "That way is blocked."
                 /\ pos' = pos ]_vars

\* An actor other than the player walked to another edge cell, and its bump
\* over the edge of the map was then refused where it stood.
C18_Witness ==
    /\ last.a.cls = "Bump"
    /\ last.a.entity \in NPCs
    /\ ~OnMap(<< pos[last.a.entity][1] + last.a.dx,
                 pos[last.a.entity][2] + last.a.dy >>)
    /\ last.res = "Impossible"
    /\ pos[last.a.entity] # SpawnXY(last.a.entity)

\* ------------------------------------------------------------------ C19
LastTarget(e) == Head(ai[e]).last_target

\* The paths get_path_to finds from the actor to the coordinate it remembers.
Remembered(e) == full_path_to(World, e, LastTarget(e))

IsWait(intent) == Len(intent) = 1 /\ intent[1].cls = "Wait"

\* last_target is never unset, and a decide() leaves in it the place the
\* target was acquired at, or what it held.
Persists ==
    [][ \A e \in NPCs :
          /\ LastTarget(e) # NoTile => Head(ai'[e]).last_target # NoTile
          /\ Head(ai'[e]).last_target =
               IF Decided(e) /\ Sees(e) THEN pos[PLAYER] ELSE LastTarget(e)
      ]_vars

Notices(messages) ==
    Cardinality({ i \in 1 .. Len(messages) :
                    messages[i] = "The ? spotted you!" })

Alerted(e) == Head(ai[e]).last_target # NoTile

\* C20: a decide() of a hostile actor sends the "spotted you" notice, once,
\* exactly when it takes the actor from not alerted (last_target unset) to
\* alerted; no other step sends it, and an alerted actor stays alerted, so
\* no actor sends it twice, also when it loses the player and sees it again.
C20_NoticeOnce ==
    [][ /\ \A e \in NPCs :
             /\ Decided(e) =>
                   Notices(new_messages') =
                     IF ~Alerted(e) /\ Head(ai'[e]).last_target # NoTile
                     THEN 1 ELSE 0
             /\ Alerted(e) => Head(ai'[e]).last_target # NoTile
        /\ (\A e \in NPCs : ~Decided(e)) => Notices(new_messages') = 0
      ]_vars

\* An actor that had been alerted before has picked the player, who has
\* walked on since the game began, and this decide() sent no notice.
C20_Witness ==
    /\ decision.entity = "npc2"
    /\ decision.target = PLAYER
    /\ pos[PLAYER] # <<5, 8>>
    /\ LastTarget("npc2") = pos[PLAYER]
    /\ Notices(new_messages) = 0

\* ------------------------------------------------------------------ C21
\* The intent is Bumps along the first cells of the path p, from the cell
\* the actor stands on.
Along(e, intent, p) ==
    /\ Len(intent) <= Len(p)
    /\ \A i \in 1 .. Len(intent) :
          LET from == IF i = 1 THEN pos[e] ELSE p[i - 1]
          IN  intent[i] =
                Action("Bump", e, p[i][1] - from[1], p[i][2] - from[2])

\* The cell may be stepped onto: it is walkable now, or the visible target
\* that was picked stands on it.
MayStep(c, target) ==
    tile_is_walkable(World, c) \/ (target = PLAYER /\ c = pos[PLAYER])

\* C21 as stated: every intent of HostileEnemy.decide is [Wait] or 1 to
\* move_speed Bumps along consecutive cells of the computed path; no Bump
\* steps onto a cell that is not walkable unless the visible target stands
\* on it, and the steps from the first refused cell on are dropped.
C21_NoBlockedStep ==
    [][ \A e \in NPCs :
          Decided(e) =>
            \/ IsWait(decision'.intent)
            \/ /\ Len(decision'.intent) \in 1 .. move_speed(e)
               /\ decision'.xy # NoTile
               /\ \E p \in full_path_to(World, e, decision'.xy) :
                     /\ Along(e, decision'.intent, p)
                     /\ \A i \in 1 .. Len(decision'.intent) :
                           MayStep(p[i], decision'.target)
                     /\ ( /\ Len(decision'.intent) < move_speed(e)
                          /\ Len(decision'.intent) < Len(p) )
                        => ~MayStep(p[Len(decision'.intent) + 1],
                                    decision'.target) ]_vars

\* C21, amended: as above, except that a destination one step away is
\* bumped into whatever stands on it.
C21_IntentShape ==
    [][ \A e \in NPCs :
          Decided(e) =>
            \/ IsWait(decision'.intent)
            \/ /\ Len(decision'.intent) \in 1 .. move_speed(e)
               /\ decision'.xy # NoTile
               /\ \E p \in full_path_to(World, e, decision'.xy) :
                     /\ Along(e, decision'.intent, p)
                     /\ IF Len(p) = 1
                        THEN Len(decision'.intent) = 1
                        ELSE /\ \A i \in 1 .. Len(decision'.intent) :
                                  MayStep(p[i], decision'.target)
                             /\ ( /\ Len(decision'.intent) < move_speed(e)
                                  /\ Len(decision'.intent) < Len(p) )
                                => ~MayStep(p[Len(decision'.intent) + 1],
                                            decision'.target) ]_vars

\* The actor of move_speed 2 decided on a path of three cells or more with
\* the second cell taken, and its intent is the one Bump onto the first.
C21_Witness ==
    /\ decision.entity = "npc1"
    /\ decision.distance >= 3
    /\ Len(decision.intent) = 1
    /\ decision.intent[1].cls = "Bump"
    /\ \E p \in full_path_to(World, "npc1", decision.xy) :
          /\ Along("npc1", decision.intent, p)
          /\ ~MayStep(p[2], decision.target)

\* ------------------------------------------------------------------ C22
\* C22: a turn (perform) of an actor whose strategy is a Statue performs
\* exactly one Wait, raises no error, changes no position nor any other
\* part of the world, and leaves the actor's strategy in place.
C22_StatueWaits ==
    [][ \A e \in NPCs :
          (Turned(e) /\ Head(ai[e]).kind = "Statue") =>
            /\ turn_log'.performed = << Action("Wait", e, 0, 0) >>
            /\ ~crashed'
            /\ pos' = pos /\ hp' = hp /\ inventory' = inventory
            /\ ai' = ai ]_vars

\* decide() alone, called on a Statue, does give [Wait].
C22_Witness ==
    /\ decision.entity = "npc1"
    /\ Head(ai["npc1"]).kind = "Statue"
    /\ decision.intent = << Action("Wait", "npc1", 0, 0) >>
    /\ pos[PLAYER] # <<5, 8>>

\* ------------------------------------------------------------------ C23
\* C23: while an NPC has the being-eaten status, each of its turns has the
\* intent [Talk directed at itself, Wait] and performs both without error,
\* the actor staying where it is; on the first turn without the status the
\* BeingEaten strategy gives way to its parent, which decides and acts in
\* that same turn.
C23_Struggles ==
    [][ \A e \in NPCs :
          TookTurn(e) =>
            /\ e \in being_eaten =>
                  /\ Len(turn_log'.intent) = 2
                  /\ turn_log'.intent[1].cls = "Talk"
                  /\ << pos[e][1] + turn_log'.intent[1].dx,
                        pos[e][2] + turn_log'.intent[1].dy >> = pos[e]
                  /\ turn_log'.intent[2] = Action("Wait", e, 0, 0)
                  /\ Len(turn_log'.performed) = 2
                  /\ ~crashed'
                  /\ pos'[e] = pos[e]
            /\ (e \notin being_eaten /\ Head(ai[e]).kind = "BeingEatenNPC") =>
                  /\ Kinds(ai'[e]) = Kinds(Tail(ai[e]))
                  /\ Len(turn_log'.intent) > 0 ]_vars

\* The turn of an actor that is being eaten and does not stand at (0, 0)
\* ended in a fault.
C23_Witness ==
    /\ turn_log.entity = "npc1"
    /\ "npc1" \in being_eaten
    /\ Head(ai["npc1"]).kind = "BeingEatenNPC"
    /\ Len(turn_log.intent) = 2
    /\ turn_log.intent[1].cls = "Talk"
    /\ pos["npc1"] # <<0, 0>>
    /\ crashed

\* ------------------------------------------------------------------- C24
\* A need-driven strategy with some of its duration left is on the stack.
Relieving(stack) ==
    \E i \in 1 .. Len(stack) :
        stack[i].kind = "PeeNPC" /\ stack[i].pee_duration >= 1

\* The need-driven strategy at the head of the stack has run out.
Relieved(stack) == Head(stack).kind = "PeeNPC" /\ Head(stack).pee_duration < 1

\* A need-driven strategy is constructed on this turn of e.
EntersPee(e) ==
    /\ TookTurn(e)
    /\ Relieving(ai'[e])
    /\ ~Relieving(ai[e])

PeeOf(stack) ==
    stack[CHOOSE i \in 1 .. Len(stack) : stack[i].kind = "PeeNPC"]

HasPee(stack) == \E i \in 1 .. Len(stack) : stack[i].kind = "PeeNPC"

\* A turn of e that its need-driven strategy begins at the head of the stack.
PeeTurn(e) == TookTurn(e) /\ Head(ai[e]).kind = "PeeNPC"

OnTarget(e) == pos[e] = Head(ai[e]).target_tile

\* How a turn of the need-driven strategy treats the duration: one off on
\* the target tile, nothing anywhere else, and the actor stays in place once
\* it has begun.
Counted(e) ==
    /\ Head(ai'[e]).kind = "PeeNPC"
    /\ Head(ai'[e]).pee_duration =
          Head(ai[e]).pee_duration - (IF OnTarget(e) THEN 1 ELSE 0)
    /\ Head(ai'[e]).pee_duration < PeeDuration =>
          pos'[e] = Head(ai'[e]).target_tile

\* C25, as stated: whether or not the actor is being eaten, each turn of the
\* need-driven strategy counts as above while the duration is positive, and
\* the first turn after it reached zero hands control back to the parent.
C25_CountsAndHandsBack ==
    [][\A e \in NPCs :
         /\ (PeeTurn(e) /\ ~Relieved(ai[e])) => Counted(e)
         /\ (PeeTurn(e) /\ Relieved(ai[e])) => ~HasPee(ai'[e])
    ]_vars

\* C25, amended: the duration starts at 10; a turn on which the actor is not
\* being eaten counts as above and hands control back exactly when the
\* duration has reached zero; a turn on which it is being eaten leaves the
\* strategy on the stack as it is, in the closet also and with the duration
\* at zero also.
C25_Duration ==
    [][\A e \in NPCs :
         /\ EntersPee(e) => PeeOf(ai'[e]).pee_duration = PeeDuration
         /\ (PeeTurn(e) /\ ~Relieved(ai[e]) /\ e \notin being_eaten) =>
              Counted(e)
         /\ (PeeTurn(e) /\ Relieved(ai[e]) /\ e \notin being_eaten) =>
              ~HasPee(ai'[e])
         /\ (TookTurn(e) /\ HasPee(ai[e]) /\ e \in being_eaten) =>
              /\ HasPee(ai'[e])
              /\ PeeOf(ai'[e]) = PeeOf(ai[e])
              /\ Head(ai'[e]).kind = "BeingEatenNPC"
         /\ (~TookTurn(e) /\ HasPee(ai[e])) =>
              HasPee(ai'[e]) /\ PeeOf(ai'[e]) = PeeOf(ai[e])
    ]_vars

\* npc2, being eaten in the closet with the duration at zero, took a turn
\* and its need-driven strategy is still there, under the BeingEatenNPC.
C25_Witness ==
    /\ turn_log.entity = "npc2"
    /\ "npc2" \in being_eaten
    /\ pos["npc2"] = ClosetTile
    /\ Kinds(ai["npc2"]) = <<"BeingEatenNPC", "PeeNPC", "DefaultNPC">>
    /\ ai["npc2"][2].pee_duration = 0
    /\ last_peed["npc2"] > NeedThreshold

\* ------------------------------------------------------------------- C26
\* The need-driven strategy of e gives way to its parent on this turn.
Reverts(e) == PeeTurn(e) /\ Head(ai'[e]).kind = "DefaultNPC"

\* C26, as stated: a turn of the need-driven strategy reverts to the parent
\* when the duration has reached zero or the need timer is no longer over
\* the threshold.
C26_RevertsOnEither ==
    [][\A e \in NPCs :
         (PeeTurn(e) /\ (Relieved(ai[e]) \/ ~NeedsToPee(e))) => Reverts(e)
    ]_vars

\* C26, amended: while a need-driven strategy has duration left the timer
\* stays over the threshold, so the trigger never clears first; and a turn
\* of the strategy reverts to the parent exactly when the duration has
\* reached zero and the actor is not being eaten.
C26_RevertsOnZero ==
    /\ [](\A e \in NPCs : Relieving(ai[e]) => NeedsToPee(e))
    /\ [][\A e \in NPCs :
            PeeTurn(e) =>
               (Reverts(e) <=> (Relieved(ai[e]) /\ e \notin being_eaten))
       ]_vars

\* npc2 made its last decision in the closet, which cleared the timer, and
\* on its next turn, not being eaten, it went back to its routine and left
\* the closet.
C26_Witness ==
    /\ turn_log.entity = "npc2"
    /\ being_eaten = {}
    /\ Kinds(ai["npc2"]) = <<"DefaultNPC">>
    /\ last_peed["npc2"] = turn_count
    /\ pos["npc2"] # ClosetTile
    /\ pos["npc2"] # SpawnXY("npc2")

\* ------------------------------------------------------------------- C27
\* A turn decided by the DefaultNPC of e with a target_tile that is set and
\* that e does not stand on.
Heading(e) ==
    /\ TookTurn(e)
    /\ Head(ai'[e]).kind = "DefaultNPC"
    /\ Head(ai'[e]).target_tile # NoTile
    /\ pos[e] # Head(ai'[e]).target_tile

Mused(plan) == Len(plan) > 0 /\ plan[1].cls = "Talk"

\* The intent without its ambient Talk.
Legs(plan) == IF Mused(plan) THEN Tail(plan) ELSE plan

\* The cell that the first i Bumps of plan lead to from c.
RECURSIVE After(_, _, _)
After(c, plan, i) ==
    IF i = 0 THEN c
    ELSE LET b == After(c, plan, i - 1)
         IN  <<b[1] + plan[i].dx, b[2] + plan[i].dy>>

\* plan is Bumps along the first cells of p, every one walkable, as far as
\* p is walkable.
Follows(e, plan, p) ==
    /\ Len(plan) <= Len(p)
    /\ \A i \in 1 .. Len(plan) :
         /\ plan[i].cls = "Bump"
         /\ After(pos[e], plan, i) = p[i]
         /\ tile_is_walkable(World, p[i])
    /\ Len(plan) < Len(p) => ~tile_is_walkable(World, p[Len(plan) + 1])

\* The paths of e to the target it is heading for, move_speed cells long.
Ways(e) == get_path_to(World, e, Head(ai'[e]).target_tile, move_speed(e))

IsWander(plan) ==
    /\ Len(plan) = 1
    /\ plan[1].cls = "Bump"
    /\ <<plan[1].dx, plan[1].dy>> \in DIRECTIONS

\* C27, as stated: with a target_tile set and not reached, the intent of a
\* DefaultNPC is a chat Bump, or else, after the ambient Talk if there is
\* one, path steps toward the target (at most move_speed, cut at the first
\* cell that is not walkable) or a Wait; never a wander Bump.
C27_NoWanderWithTarget ==
    [][\A e \in NPCs :
         Heading(e) =>
            LET plan == turn_log'.intent
            IN  \/ IsChat(e, plan)
                \/ IsWait(Legs(plan))
                \/ \E p \in Ways(e) : Follows(e, Legs(plan), p)
    ]_vars

\* C27, amended: with a target_tile set and not reached, the intent is a
\* chat Bump, or at least one path step (after the ambient Talk if there is
\* one), or, where the path gives no step, the ambient Talk alone if there
\* is one and otherwise what an NPC without a target does: a wander Bump in
\* any direction or a Wait.
C27_WandersWhenStuck ==
    [][\A e \in NPCs :
         Heading(e) =>
            LET plan == turn_log'.intent
            IN  \/ IsChat(e, plan)
                \/ \E p \in Ways(e) :
                     /\ Follows(e, Legs(plan), p)
                     /\ Len(plan) > 0
                \/ /\ \E p \in Ways(e) : Follows(e, <<>>, p)
                   /\ ~Mused(plan)
                   /\ IsWait(plan) \/ IsWander(plan)
    ]_vars

\* An NPC whose way to its target_tile began on a cell that was not
\* walkable took a step to the side instead: its intent was one Bump, it
\* moved, and from where it came the target_tile was not further than from
\* where it is.
C27_Witness ==
    \E e \in NPCs :
      /\ turn_log.entity = e
      /\ Head(ai[e]).kind = "DefaultNPC"
      /\ Head(ai[e]).target_tile # NoTile
      /\ IsWander(turn_log.intent)
      /\ Len(turn_log.performed) = 1
      /\ ~turn_log.performed[1].meleed
      /\ LET d == turn_log.intent[1]
             from == <<pos[e][1] - d.dx, pos[e][2] - d.dy>>
             was == [World EXCEPT !.pos[e] = from]
         IN  /\ from # pos[e]
             /\ from # Head(ai[e]).target_tile
             /\ tile_is_walkable(was, pos[e])
             /\ \A p \in get_path_to(was, e, Head(ai[e]).target_tile,
                                     move_speed(e)) :
                   p = <<>> \/ ~tile_is_walkable(was, p[1])

\* ------------------------------------------------------------------- C28
\* The step just taken began the layout again.
Restarted == depth' = depth + 1

\* C28: the layout is begun again only if the cap on the attempts was
\* exhausted before room_target rooms were accepted; a layout completed on
\* or before the last attempt allowed, on that very attempt also, is kept.
C28_RestartOnlyShort ==
    [][Restarted => Len(rooms) < room_target]_vars

\* The loop has ended with the layout complete, on the last attempt allowed.
C28_Witness ==
    /\ gen = "running"
    /\ Len(rooms) = room_target
    /\ attempts = max_attempts

\* ------------------------------------------------------------------- C29
\* C29: a map returned after the layout was begun again holds the tiles of
\* the rooms of the final attempt and the stairs, and nothing of the
\* attempts abandoned; its upstairs_location is the centre of the first
\* room of the final attempt.
C29_FromScratch ==
    (gen = "returned" /\ depth > 0) =>
        /\ dungeon \ LayoutOf(rooms) = {}
        /\ placed.upstairs_location = center(rooms[1])

\* A map was returned after the layout had been begun again, with the
\* up-stairs in the first room of the final attempt and with floor that is
\* neither interior nor door of a room of that attempt.
C29_Witness ==
    /\ gen = "returned"
    /\ depth > 0
    /\ placed.upstairs_location = center(rooms[1])
    /\ placed.player = center(rooms[1])
    /\ \E c \in dungeon :
          /\ c # placed.downstairs_location
          /\ \A i \in 1 .. Len(rooms) : c \notin Carved(rooms[i], i = 1)

\* ------------------------------------------------------------------- C30
\* The cells strictly inside the walls of r, written out.
Interior(r) ==
    { c \in (0 .. GenWidth - 1) \X (0 .. GenHeight - 1) :
        /\ r.x1 < c[1] /\ c[1] < r.x2
        /\ r.y1 < c[2] /\ c[2] < r.y2 }

Middle(r) == << (r.x1 + r.x2) \div 2, (r.y1 + r.y2) \div 2 >>

\* C30: in a returned floor the player and upstairs_location are at the
\* centre of the first room accepted, downstairs_location is the centre of
\* the last one, that cell carries the down-stairs tile and no other does,
\* it lies strictly inside the last room, and it is not upstairs_location.
C30_Stairs ==
    gen = "returned" =>
        /\ placed.player = Middle(rooms[1])
        /\ placed.upstairs_location = Middle(rooms[1])
        /\ placed.downstairs_location = Middle(rooms[Len(rooms)])
        /\ placed.down_stairs = { placed.downstairs_location }
        /\ placed.downstairs_location \in Interior(rooms[Len(rooms)])
        /\ placed.downstairs_location \in dungeon
        /\ placed.downstairs_location # placed.upstairs_location

\* A floor was returned whose last room is not its first one and whose
\* stairs are in different rooms.
C30_Witness ==
    /\ gen = "returned"
    /\ Len(rooms) = room_target
    /\ placed.upstairs_location \in Interior(rooms[1])
    /\ placed.downstairs_location \in Interior(rooms[Len(rooms)])
    /\ placed.upstairs_location \notin Interior(rooms[Len(rooms)])

\* ------------------------------------------------------------------- C31
\* c is open toward its neighbour n.
OpenTo(m, c, n) ==
    \/ n[1] = c[1] + 1 /\ m.cells[c].R
    \/ n[1] = c[1] - 1 /\ m.cells[c].L
    \/ n[2] = c[2] + 1 /\ m.cells[c].D
    \/ n[2] = c[2] - 1 /\ m.cells[c].U

\* The cells that openings lead to from the cells of seen.
RECURSIVE Joined(_, _)
Joined(m, seen) ==
    LET more == { n \in Grid(m.width, m.height) \ seen :
                    \E c \in seen : n \in neighbors(m, c) /\ OpenTo(m, c, n) }
    IN  IF more = {} THEN seen ELSE Joined(m, seen \cup more)

\* C31: for every grid size, start cell and sequence of choices the carving
\* raises no error, and when it has ended every cell is visited, every cell
\* is joined to the start cell through openings, and a cell is open toward
\* a neighbour iff the neighbour is open toward it.
C31_MazeCarved ==
    /\ maze.pc # "IndexError"
    /\ maze.pc = "done" =>
         /\ unvisited_cells(maze) = {}
         /\ Joined(maze, {maze.start}) = Grid(maze.width, maze.height)
         /\ \A c \in Grid(maze.width, maze.height) :
              \A n \in neighbors(maze, c) :
                 OpenTo(maze, c, n) <=> OpenTo(maze, n, c)

\* On a grid one cell high the carving began in the middle, went to one
\* end, and failed there with the other end unvisited.
C31_Witness ==
    /\ maze.pc = "IndexError"
    /\ maze.height = 1
    /\ maze.start = <<1, 0>>
    /\ Len(maze.path) = 1
    /\ unvisited_cells(maze) # {}

\* ------------------------------------------------------------------- C32
\* The block of tiles of the cell being solidified.
Block ==
    { << chunked.x * 5 + x + chunked.x_offset,
         chunked.y * 5 + y + chunked.y_offset >> : x \in 0 .. 4, y \in 0 .. 4 }

\* C32: every combination of the four flags has a pattern: solidifying a
\* cell raises no error and stamps its whole 5x5 block, and the pattern is
\* one of four that follow from the flags alone (wall along the top when
\* the cell is closed upward, along the right when it is closed to the
\* right, and in the corner between them).
C32_ChunkTotal ==
    /\ chunked.pc # "TypeError"
    /\ chunked.pc = "solid" =>
         /\ DOMAIN chunked.tiles = Block
         /\ \A t \in Block :
              LET col == t[1] - chunked.x * 5 - chunked.x_offset
                  row == t[2] - chunked.y * 5 - chunked.y_offset
              IN  chunked.tiles[t] = "wall" <=>
                     \/ row = 0 /\ (~chunked.cell.U \/ col = 4)
                     \/ col = 4 /\ ~chunked.cell.R

\* A cell with no opening was solidified: no pattern, and a TypeError.
C32_Witness ==
    /\ chunked.pc = "TypeError"
    /\ ~chunked.cell.L /\ ~chunked.cell.R
    /\ ~chunked.cell.U /\ ~chunked.cell.D

TableOf(kind) == IF kind = "name" THEN tables.NAMES ELSE tables.FLAVORS

NoDuplicates(list) ==
    \A i, j \in 1 .. Len(list) : list[i] = list[j] => i = j

\* C34: after any registrations no table holds a text twice, every id ever
\* returned still indexes the text it was returned for, and one text never
\* got two ids.
C34_Tables ==
    tables.pc = "loaded" =>
        /\ NoDuplicates(tables.NAMES)
        /\ NoDuplicates(tables.FLAVORS)
        /\ \A r \in tables.issued :
             /\ r[2] \in 0 .. Len(TableOf(r[1])) - 1
             /\ TableOf(r[1])[r[2] + 1] = r[3]
        /\ \A r, s \in tables.issued :
             r[1] = s[1] /\ r[3] = s[3] => r[2] = s[2]

\* C34: a registration only appends to the tables.
C34_Append ==
    [][tables.pc = "loaded" =>
         /\ SubSeq(tables'.NAMES, 1, Len(tables.NAMES)) = tables.NAMES
         /\ SubSeq(tables'.FLAVORS, 1, Len(tables.FLAVORS)) = tables.FLAVORS
         /\ Len(tables'.NAMES) - Len(tables.NAMES) \in {0, 1}
         /\ Len(tables'.FLAVORS) - Len(tables.FLAVORS) \in {0, 1}]_vars

\* A name registered before was registered again after other names, and got
\* its old id, not the last one; the flavor was new.
C34_Witness ==
    /\ tables.pc = "loaded"
    /\ tables.known
    /\ Len(tables.NAMES) >= 2
    /\ tables.name < Len(tables.NAMES) - 1
    /\ tables.flavor = Len(tables.FLAVORS) - 1
    /\ Len(tables.FLAVORS) >= 2

\* ------------------------------------------------------------------- C35
\* C35: whatever default Pickups the actors perform, no inventory holds an
\* item twice, and a Pickup that directly follows a Pickup of the same actor
\* (so on the same cell) adds nothing to any inventory and no history entry.
C35_PickupOnce ==
    [][ \A e \in Actors :
          Performed(Action("Pickup", e, 0, 0)) =>
            /\ \A o \in Actors, i \in Items : Count(inventory'[o], i) <= 1
            /\ (last.a = Action("Pickup", e, 0, 0) /\ last.res = "ok") =>
                 /\ inventory' = inventory
                 /\ parent' = parent
                 /\ new_history' = <<>> ]_vars

\* An actor who carries an item of the cell it stands on performed a Pickup
\* there that added nothing.
C35_Witness ==
    /\ last.a.cls = "Pickup"
    /\ last.res = "ok"
    /\ new_history = <<>>
    /\ \E e \in Actors :
         /\ last.a.entity = e
         /\ \E i \in Items : Count(inventory[e], i) = 1 /\ pos[i] = pos[e]

\* ------------------------------------------------------------------- C36
\* The unit squares a rectangle covers.
Squares(r) == (r.x1 .. r.x2 - 1) \X (r.y1 .. r.y2 - 1)

InMap(r) ==
    /\ 0 <= r.x1 /\ r.x1 <= r.x2 /\ r.x2 <= GenWidth - 1
    /\ 0 <= r.y1 /\ r.y1 <= r.y2 /\ r.y2 <= GenHeight - 1

\* Every rectangle the growth loop passes through, from those of growing on.
RECURSIVE Stages(_, _, _, _)
Stages(growing, x_dir, y_dir, others) ==
    IF growing = {} THEN {}
    ELSE growing \cup
         Stages(UNION { Growths(r, x_dir, y_dir, others) :
                        r \in { g \in growing : area(g) < g.target_area } },
                x_dir, y_dir, others)

\* C36: every accepted room lies within the map and shares no unit square
\* with a room accepted before it; and so does every rectangle that a room
\* begun next to the accepted ones passes through, growth step by growth
\* step, whatever the choices.  (The code's room_target is 4 or more: a
\* further room is begun from every list of rooms reached here.  The
\* constructor reads nothing but rooms, and every list is reached without a
\* failed attempt too, so those states are the ones looked at.)
C36_RoomsApart ==
    /\ \A i \in 1 .. Len(rooms) :
         /\ InMap(rooms[i])
         /\ \A j \in 1 .. i - 1 : Squares(rooms[i]) \cap Squares(rooms[j]) = {}
    /\ (gen = "running" /\ attempts = Len(rooms)) =>
         \A b \in Beginnings, target \in room_min_size .. room_max_size :
            \A r \in Stages({ Room(b[1], b[1], b[2], b[2], <<b[1], b[2]>>,
                                   NoDoor, target * target) },
                            b[3], b[4], rooms) :
               /\ InMap(r)
               /\ \A j \in 1 .. Len(rooms) :
                    Squares(r) \cap Squares(rooms[j]) = {}

\* Two rooms were accepted, the second against the east wall of the first
\* and grown to the east border of the map.
C36_Witness ==
    /\ Len(rooms) = 2
    /\ rooms[2].x1 = rooms[1].x2
    /\ rooms[2].x2 = GenWidth - 1
    /\ Squares(rooms[2]) # {}
    /\ rooms[2].y1 < rooms[1].y2
    /\ rooms[2].y2 > rooms[1].y1

\* ------------------------------------------------------------------- C37
\* The tiles next to c in one of the four directions.
Beside(c) ==
    { <<c[1] + 1, c[2]>>, <<c[1] - 1, c[2]>>,
      <<c[1], c[2] + 1>>, <<c[1], c[2] - 1>> }

\* The floor tiles that can be walked to from those of seen.
RECURSIVE Walked(_)
Walked(seen) ==
    LET more == { c \in dungeon \ seen : Beside(c) \cap seen # {} }
    IN  IF more = {} THEN seen ELSE Walked(seen \cup more)

OnlyRaised == \A k \in DOMAIN ship.calls : ship.calls[k][2]

\* C38: unlocking the gate and dismantling the bioscanner end, in either
\* order, with the gate tile floor and the bioscanner tile the dismantled
\* bioscanner; with the gate unlocked alone the gate tile is the scanning
\* gate; and after any assignments of true the gate tile is floor exactly
\* when both flags are true.
C38_GateCommutes ==
    (ship.pc = "built" /\ OnlyRaised) =>
        /\ ship.calls \in { << <<"gate_unlocked", TRUE>>,
                               <<"bioscanner_dismantled", TRUE>> >>,
                            << <<"bioscanner_dismantled", TRUE>>,
                               <<"gate_unlocked", TRUE>> >> } =>
             /\ ship.gate = "floor"
             /\ ship.bioscanner = "dismantled_bioscanner"
             /\ ship.gate_unlocked /\ ship.bioscanner_dismantled
        /\ (ship.gate_unlocked /\ ~ship.bioscanner_dismantled) =>
             ship.gate = "gate"
        /\ ship.gate = "floor" <=>
             (ship.gate_unlocked /\ ship.bioscanner_dismantled)
        /\ ship.bioscanner = "dismantled_bioscanner" <=>
             ship.bioscanner_dismantled

\* The bioscanner was dismantled first and the gate unlocked after it, and
\* the gate is floor.
C38_Witness ==
    /\ ship.pc = "built"
    /\ ship.calls = << <<"bioscanner_dismantled", TRUE>>,
                       <<"gate_unlocked", TRUE>> >>
    /\ ship.gate = "floor"
    /\ ship.bioscanner = "dismantled_bioscanner"

\* ------------------------------------------------------------------- C39
\* The places of the trace where entity e was called as kind.
Calls(kind, e) ==
    { k \in DOMAIN turns.trace :
        turns.trace[k][1] = kind /\ turns.trace[k][2] = e }

Hooks == UNION { Calls("on_turn", e) : e \in 0 .. MaxEnemies }

Performs == UNION { Calls("perform", e) : e \in 0 .. MaxEnemies }

RECURSIVE HandOffs(_, _, _, _)
HandOffs(stack, eaten, turn, peed) ==
    LET over == override(Head(stack), eaten, turn, peed)
    IN  IF over # "None"
        THEN <<stack>> \o HandOffs(<<Strategy(over, NoTile)>> \o stack,
                                   eaten, turn, peed)
        ELSE IF resolve(Head(stack), eaten) = "parent"
        THEN <<stack>> \o HandOffs(Tail(stack), eaten, turn, peed)
        ELSE <<stack>>

\* The kind of strategy that has to decide, read off the status, the need
\* timer and the duration left: the struggle when the BeingEaten status is
\* on; without it a relief under way goes on, and a routine gives way to a
\* new relief when the timer is over the threshold.
Decider(stack, eaten, turn, peed) ==
    LET under == IF Head(stack).kind = "BeingEatenNPC" THEN Tail(stack)
                 ELSE stack
    IN  IF eaten THEN "BeingEatenNPC"
        ELSE IF Head(under).kind = "PeeNPC" /\ Head(under).pee_duration >= 1
        THEN "PeeNPC"
        ELSE IF turn - peed > NeedThreshold THEN "PeeNPC"
        ELSE "DefaultNPC"

\* C40: the hand-offs of one perform() are at most three, and end at a
\* strategy with no override and no parent to resolve to; that strategy,
\* over the stack it was reached with, is the actor's ai after the turn; it
\* is of the kind the status, the timer and the duration call for, and the
\* one intent of the turn is its own, the actions performed its beginning.
C40_HandOffsEnd ==
    [][ \A e \in NPCs :
          TookTurn(e) =>
            LET chain == HandOffs(ai[e], e \in being_eaten, turn_count,
                                  last_peed[e])
                final == chain[Len(chain)]
            IN  /\ Len(chain) <= 4
                /\ override(Head(final), e \in being_eaten, turn_count,
                            last_peed[e]) = "None"
                /\ resolve(Head(final), e \in being_eaten) # "parent"
                /\ Len(ai'[e]) = Len(final)
                /\ Tail(ai'[e]) = Tail(final)
                /\ Head(ai'[e]).kind = Head(final).kind
                /\ Head(ai'[e]).kind = Decider(ai[e], e \in being_eaten,
                                               turn_count, last_peed[e])
                /\ turn_log'.intent # <<>>
                /\ \A k \in DOMAIN turn_log'.intent :
                     turn_log'.intent[k].entity = e
                /\ Len(turn_log'.performed) <= Len(turn_log'.intent)
                /\ \A k \in DOMAIN turn_log'.performed :
                     turn_log'.performed[k].a = turn_log'.intent[k]
                /\ Head(ai'[e]).kind = "BeingEatenNPC" =>
                     /\ Len(turn_log'.intent) = 2
                     /\ turn_log'.intent[1].cls = "Talk"
                     /\ turn_log'.intent[2].cls = "Wait" ]_vars

\* npc2 was taken hold of on its way to relief: the struggle decided its
\* turn, installed over the need-driven strategy and the routine.
C40_Witness ==
    /\ turn_log.entity = "npc2"
    /\ "npc2" \in being_eaten
    /\ Len(ai["npc2"]) = 3
    /\ ai["npc2"][1].kind = "BeingEatenNPC"
    /\ ai["npc2"][2].kind = "PeeNPC"
    /\ ai["npc2"][3].kind = "DefaultNPC"
    /\ Len(turn_log.intent) = 2
    /\ Len(turn_log.performed) = 2
    /\ ~crashed

====
